---- MODULE Spec2Model ----
(***************************************************************************)
(* A model of the vanaheimr IR instruction classes (Instruction.cpp), the  *)
(* module container (Module.cpp) and the PTX to VIR translator             *)
(* (PTXToVIRTranslator.cpp).                                               *)
(*                                                                         *)
(* C++ vectors are sequences; C++ index k is index k+1 here, so the guard  *)
(* slot reads[0] of the source is reads[1] of the model.                   *)
(***************************************************************************)
EXTENDS Integers, Sequences, FiniteSets, TLC

VARIABLES
    insts,      \* instruction objects of the instruction model, by object name
    heap,       \* operand objects: address -> [val, frees]
    last,       \* the last operation applied to an instruction object
    snap,       \* the original as it was when the last copy of it was made
    paired,     \* source operand of "orig" -> the block or predicate it was added with
    cvt,        \* the convert instruction under lowering and the opcode chosen
    tr,         \* the translator: its fields, the source read so far, the target
    mod         \* a module under its list operations, and the last of them

vars == <<insts, heap, last, snap, paired, cvt, tr, mod>>

(***************************************************************************)
(* Bounds of the model.                                                    *)
(***************************************************************************)
\* how many times occupied slots of one instruction are re-filled, and how
\* many times a variadic position of it is re-used after a removal
MaxReplace == 1
\* how many variadic entries (sources, returns, arguments) a list can hold
MaxSources == 2
\* how many operations callers apply to the copy of an instruction
MaxCopyOps == 1

(***************************************************************************)
(* Operands.  The operand classes live in Operand.h/.cpp; an operand is    *)
(* modelled by the fields its constructor stores.                          *)
(***************************************************************************)
nullptr == <<>>

NoRegister == [function |-> "", id |-> 0, name |-> ""]
NoValue    == [kind |-> "", function |-> "", name |-> ""]
NoInstruction == 0

PredicateOperand(reg, modifier, instruction) ==
    [kind |-> "Predicate", reg |-> reg, modifier |-> modifier, offset |-> 0,
     globalValue |-> NoValue, instruction |-> instruction]

RegisterOperand(reg, instruction) ==
    [kind |-> "Register", reg |-> reg, modifier |-> "", offset |-> 0,
     globalValue |-> NoValue, instruction |-> instruction]

IndirectOperand(reg, offset, instruction) ==
    [kind |-> "Indirect", reg |-> reg, modifier |-> "", offset |-> offset,
     globalValue |-> NoValue, instruction |-> instruction]

ImmediateOperand(imm, instruction) ==
    [kind |-> "Immediate", reg |-> NoRegister, modifier |-> "", offset |-> imm,
     globalValue |-> NoValue, instruction |-> instruction]

AddressOperand(value, instruction) ==
    [kind |-> "Address", reg |-> NoRegister, modifier |-> "", offset |-> 0,
     globalValue |-> value, instruction |-> instruction]

ArgumentOperand(argument, instruction) ==
    [kind |-> "Argument", reg |-> NoRegister, modifier |-> "", offset |-> 0,
     globalValue |-> argument, instruction |-> instruction]

\* PredicateOperand::isAlwaysTrue
isAlwaysTrue(operand) == operand.modifier = "PredicateTrue"

\* Operand::isBasicBlock
isBasicBlock(operand) ==
    operand.kind = "Address" /\ operand.globalValue.kind = "BasicBlock"

\* Operand::clone: a new operand object with the same fields
OperandClone(operand) == operand

\* Operand::toString, as a sequence of tokens
OperandToString(operand) ==
    CASE operand.kind = "Predicate" /\ operand.modifier = "PredicateTrue"  -> <<"PT">>
      [] operand.kind = "Predicate" /\ operand.modifier = "PredicateFalse" -> <<"!PT">>
      [] operand.kind = "Predicate" /\ operand.modifier = "InversePredicate" ->
            <<"!@", operand.reg.name>>
      [] operand.kind = "Predicate" -> <<"@", operand.reg.name>>
      [] operand.kind = "Register"  -> <<operand.reg.name>>
      [] operand.kind = "Indirect"  ->
            <<"[", operand.reg.name, "+", ToString(operand.offset), "]">>
      [] operand.kind = "Immediate" -> <<ToString(operand.offset)>>
      [] OTHER -> <<operand.globalValue.name>>

(***************************************************************************)
(* The operand heap of the instruction model.  An address is the tuple     *)
(* <<object, list, index, n>>: the n-th operand allocated for position     *)
(* index of list "r" (reads) or "w" (writes) of an instruction object.     *)
(* Addresses are never re-used, so a freed operand stays recognisable.     *)
(***************************************************************************)
Site(id) == <<id[1], id[2], id[3]>>

AllocatedAt(h, site) == {id \in DOMAIN h : Site(id) = site}

\* operator new: the address the next operand allocated for a site gets
NewAddress(h, site) ==
    <<site[1], site[2], site[3], Cardinality(AllocatedAt(h, site)) + 1>>

\* the number of allocations of an instruction object beyond the first one
\* of each of its sites
Extra(h, i) ==
    LET ids == {id \in DOMAIN h : id[1] = i}
    IN  Cardinality(ids) - Cardinality({Site(id) : id \in ids})

CanAllocate(h, site) ==
    AllocatedAt(h, site) = {} \/ Extra(h, site[1]) < MaxReplace

Allocate(h, id, operand) ==
    [a \in DOMAIN h \cup {id} |->
        IF a = id THEN [val |-> operand, frees |-> 0] ELSE h[a]]

\* what a freed operand object holds
Garbage ==
    [kind |-> "", reg |-> NoRegister, modifier |-> "", offset |-> 0,
     globalValue |-> NoValue, instruction |-> NoInstruction]

\* operator delete; deleting nullptr does nothing
Delete(h, id) ==
    IF id = nullptr THEN h
    ELSE [h EXCEPT ![id] = [val |-> Garbage, frees |-> @.frees + 1]]

Live(h, id) == id \in DOMAIN h /\ h[id].frees = 0

(***************************************************************************)
(* Instruction::Opcode and the class (shape) of each opcode.               *)
(***************************************************************************)
UnaryOpcodes ==
    {"Bitcast", "Fpext", "Fptosi", "Fptoui", "Fptrunc", "Ld", "Sext",
     "Sitofp", "Trunc", "Uitofp", "Zext"}

BinaryOpcodes ==
    {"Add", "And", "Ashr", "Fdiv", "Fmul", "Frem", "Lshr", "Mul", "Or",
     "Sdiv", "Shl", "Srem", "Sub", "Udiv", "Urem", "Xor"}

PlainOpcodes == {"Bar", "Launch", "Ret"}

Opcodes ==
    UnaryOpcodes \cup BinaryOpcodes \cup PlainOpcodes \cup
    {"Atom", "Bra", "Call", "Membar", "Setp", "St", "Phi", "Psi"}

Shape(o) ==
    CASE o \in UnaryOpcodes  -> "Unary"
      [] o \in BinaryOpcodes -> "Binary"
      [] o \in PlainOpcodes  -> "Plain"
      [] o = "Setp"          -> "Comparison"
      [] OTHER               -> o

\* the values of the tag a Setp (comparison), Atom (operation), Bra
\* (modifier) or Membar (level) is constructed with
Tags == {"tag1", "tag2"}
NoTag == ""

HasTag(o) == o \in {"Setp", "Atom", "Bra", "Membar"}

\* Instruction::Instruction(Opcode, BasicBlock*, Id)
Instruction(o, b) ==
    [opcode |-> o, block |-> b, tag |-> NoTag,
     guard |-> nullptr, reads |-> <<nullptr>>, writes |-> <<>>,
     d |-> nullptr, a |-> nullptr, b |-> nullptr, c |-> nullptr,
     target |-> nullptr,
     returned |-> <<>>, arguments |-> <<>>,
     sources |-> <<>>, blocks |-> <<>>, predicates |-> <<>>]

\* UnaryInstruction::UnaryInstruction(Opcode, BasicBlock*)
UnaryInstruction(o, b) ==
    [Instruction(o, b) EXCEPT !.writes = Append(@, nullptr),
                              !.reads  = Append(@, nullptr)]

\* BinaryInstruction::BinaryInstruction(Opcode, BasicBlock*)
BinaryInstruction(o, bb) ==
    [Instruction(o, bb) EXCEPT !.writes = Append(@, nullptr),
                               !.reads  = Append(Append(@, nullptr), nullptr)]

\* ComparisonInstruction::ComparisonInstruction
ComparisonInstruction(o, c, b) == [BinaryInstruction(o, b) EXCEPT !.tag = c]

\* Atom::Atom
Atom(o, b) ==
    [BinaryInstruction("Atom", b) EXCEPT !.tag = o,
                                         !.reads = Append(@, nullptr)]

\* Bra::Bra
Bra(m, b) ==
    [Instruction("Bra", b) EXCEPT !.tag = m, !.reads = Append(@, nullptr)]

\* Call::Call
Call(b) == [Instruction("Call", b) EXCEPT !.reads = Append(@, nullptr)]

\* Membar::Membar
Membar(l, b) == [Instruction("Membar", b) EXCEPT !.tag = l]

\* St::St
St(b) ==
    [Instruction("St", b) EXCEPT !.reads = Append(Append(@, nullptr), nullptr)]

\* Phi::Phi
Phi(b) == [Instruction("Phi", b) EXCEPT !.writes = Append(@, nullptr)]

\* Psi::Psi
Psi(b) == [Instruction("Psi", b) EXCEPT !.writes = Append(@, nullptr)]

\* the constructor each class runs, as the factory and the callers use it
Construct(o, t, b) ==
    CASE Shape(o) = "Unary"      -> UnaryInstruction(o, b)
      [] Shape(o) = "Binary"     -> BinaryInstruction(o, b)
      [] Shape(o) = "Comparison" -> ComparisonInstruction(o, t, b)
      [] Shape(o) = "Atom"       -> Atom(t, b)
      [] Shape(o) = "Bra"        -> Bra(t, b)
      [] Shape(o) = "Call"       -> Call(b)
      [] Shape(o) = "Membar"     -> Membar(t, b)
      [] Shape(o) = "St"         -> St(b)
      [] Shape(o) = "Phi"        -> Phi(b)
      [] Shape(o) = "Psi"        -> Psi(b)
      [] OTHER                   -> Instruction(o, b)

(***************************************************************************)
(* Setters.  Each takes the instruction x, the heap h and the address o of *)
(* the operand handed over, and yields the new instruction and heap.       *)
(***************************************************************************)
\* Instruction::setGuard
setGuard(x, h, p) ==
    [inst |-> [x EXCEPT !.reads[1] = p, !.guard = p],
     heap |-> Delete(h, x.guard)]

\* UnaryInstruction::setD, BinaryInstruction::setD, Phi::setD, Psi::setD
setD(x, h, o) ==
    [inst |-> [x EXCEPT !.d = o, !.writes[1] = o],
     heap |-> Delete(h, x.d)]

\* UnaryInstruction::setA, BinaryInstruction::setA
setA(x, h, o) ==
    [inst |-> [x EXCEPT !.a = o, !.reads[2] = o],
     heap |-> Delete(h, x.a)]

\* BinaryInstruction::setB
setB(x, h, o) ==
    [inst |-> [x EXCEPT !.b = o, !.reads[3] = o],
     heap |-> Delete(h, x.b)]

\* St::setD
StSetD(x, h, o) ==
    [inst |-> [x EXCEPT !.d = o, !.reads[2] = o],
     heap |-> Delete(h, x.d)]

\* St::setA
StSetA(x, h, o) ==
    [inst |-> [x EXCEPT !.a = o, !.reads[3] = o],
     heap |-> Delete(h, x.a)]

\* Call::setTarget installing the operand without deleting the previous one
setTargetLeaking(x, h, o) ==
    [inst |-> [x EXCEPT !.target = o, !.reads[2] = o],
     heap |-> h]

\* Bra::setTarget, Call::setTarget
setTarget(x, h, o) ==
    [inst |-> [x EXCEPT !.target = o, !.reads[2] = o],
     heap |-> Delete(h, x.target)]

\* Call::addReturn
addReturn(x, h, o) ==
    [inst |-> [x EXCEPT !.returned = Append(@, o), !.writes = Append(@, o)],
     heap |-> h]

\* Call::addArgument
addArgument(x, h, o) ==
    [inst |-> [x EXCEPT !.arguments = Append(@, o), !.reads = Append(@, o)],
     heap |-> h]

(***************************************************************************)
(* Phi and Psi sources.                                                    *)
(***************************************************************************)
RemoveAt(s, k) == SubSeq(s, 1, k - 1) \o SubSeq(s, k + 1, Len(s))

\* the position of the first entry of s equal to v, 0 when there is none
FirstIndex(s, v) ==
    IF \E k \in 1..Len(s) : s[k] = v
    THEN CHOOSE k \in 1..Len(s) : s[k] = v /\ \A m \in 1..(k - 1) : s[m] # v
    ELSE 0

\* Phi::addSource
PhiAddSource(x, source, predecessor) ==
    [x EXCEPT !.reads   = Append(@, source),
              !.sources = Append(@, source),
              !.blocks  = Append(@, predecessor)]

\* Phi::removeSource with readPosition not advanced past the guard slot
PhiRemoveSourceNoSkip(x, predecessor) ==
    LET k == FirstIndex(x.blocks, predecessor)
    IN  IF k = 0 THEN x
        ELSE [x EXCEPT !.reads   = RemoveAt(@, k),
                       !.sources = RemoveAt(@, k),
                       !.blocks  = RemoveAt(@, k)]

\* Phi::removeSource: the loop walks blocks, sources and reads (from its
\* second entry) together and erases at the first matching block
PhiRemoveSource(x, predecessor) ==
    LET k == FirstIndex(x.blocks, predecessor)
    IN  IF k = 0 THEN x
        ELSE [x EXCEPT !.reads   = RemoveAt(@, k + 1),
                       !.sources = RemoveAt(@, k),
                       !.blocks  = RemoveAt(@, k)]

\* Psi::addSource
PsiAddSource(x, predicate, source) ==
    [x EXCEPT !.reads      = Append(@, source),
              !.sources    = Append(@, source),
              !.predicates = Append(@, predicate)]

\* Psi::removeSource
PsiRemoveSource(x, predicate) ==
    LET k == FirstIndex(x.predicates, predicate)
    IN  IF k = 0 THEN x
        ELSE [x EXCEPT !.reads      = RemoveAt(@, k + 1),
                       !.sources    = RemoveAt(@, k),
                       !.predicates = RemoveAt(@, k)]

(***************************************************************************)
(* Copy construction.  j names the object under construction.              *)
(***************************************************************************)
\* the loop of the copy constructor over one operand list: every non-null
\* operand is cloned into a new object, a null slot stays null
CopyOperands(list, h, j, l) ==
    [k \in 1..Len(list) |->
        IF list[k] # nullptr THEN NewAddress(h, <<j, l, k>>) ELSE nullptr]

\* a copy constructor that copies the operand pointers instead of cloning
InstructionCopyShallow(i, h, j) ==
    [inst |-> [Instruction(i.opcode, i.block) EXCEPT
                  !.reads = i.reads, !.guard = i.reads[1], !.writes = i.writes],
     heap |-> h]

\* Instruction::Instruction(const Instruction&)
InstructionCopy(i, h, j) ==
    LET rs == CopyOperands(i.reads, h, j, "r")
        ws == CopyOperands(i.writes, h, j, "w")
        new == {rs[k] : k \in 1..Len(rs)} \cup {ws[k] : k \in 1..Len(ws)}
        from(id) == IF id[2] = "r" THEN i.reads[id[3]] ELSE i.writes[id[3]]
    IN  [inst |-> [Instruction(i.opcode, i.block) EXCEPT
                      !.reads = rs, !.guard = rs[1], !.writes = ws],
         heap |-> [a \in DOMAIN h \cup (new \ {nullptr}) |->
                      IF a \in DOMAIN h THEN h[a]
                      ELSE [val |-> OperandClone(h[from(a)].val), frees |-> 0]]]

\* the last element of a vector
Back(s) == s[Len(s)]

\* UnaryInstruction::UnaryInstruction(const UnaryInstruction&)
UnaryCopy(i, h, j) ==
    LET c == InstructionCopy(i, h, j)
    IN  [c EXCEPT !.inst.d = c.inst.writes[1], !.inst.a = c.inst.reads[2]]

\* BinaryInstruction::BinaryInstruction(const BinaryInstruction&)
BinaryCopy(i, h, j) ==
    LET c == InstructionCopy(i, h, j)
    IN  [c EXCEPT !.inst.d = Back(c.inst.writes), !.inst.a = c.inst.reads[2],
                  !.inst.b = c.inst.reads[3]]

\* the implicit copy constructor of ComparisonInstruction and Setp
ComparisonCopy(i, h, j) ==
    [BinaryCopy(i, h, j) EXCEPT !.inst.tag = i.tag]

\* Atom::Atom(const Atom&): operation is left uninitialised, u stands for
\* the value it happens to hold
AtomCopy(i, h, j, u) ==
    LET c == BinaryCopy(i, h, j)
    IN  [c EXCEPT !.inst.c = c.inst.reads[4], !.inst.tag = u]

\* the implicit copy constructor of Membar
MembarCopy(i, h, j) ==
    [InstructionCopy(i, h, j) EXCEPT !.inst.tag = i.tag]

\* Bra::Bra(const Bra&)
BraCopy(i, h, j) ==
    LET c == InstructionCopy(i, h, j)
    IN  [c EXCEPT !.inst.tag = i.tag, !.inst.target = c.inst.reads[2]]

\* Call::Call(const Call&) taking the views of the original as they are
CallCopyShared(i, h, j) ==
    LET c == InstructionCopy(i, h, j)
    IN  [c EXCEPT !.inst.target = c.inst.reads[2],
                  !.inst.returned = i.returned,
                  !.inst.arguments = i.arguments]

\* Call::Call(const Call&)
CallCopy(i, h, j) ==
    LET c == InstructionCopy(i, h, j)
    IN  [c EXCEPT !.inst.target = c.inst.reads[2],
                  !.inst.returned =
                      [r \in 1..Len(i.returned) |-> c.inst.writes[r]],
                  !.inst.arguments =
                      [a \in 1..Len(i.arguments) |-> c.inst.reads[a + 2]]]

\* St::St(const St&)
StCopy(i, h, j) ==
    LET c == InstructionCopy(i, h, j)
    IN  [c EXCEPT !.inst.d = c.inst.reads[2], !.inst.a = c.inst.reads[3]]

\* Phi::Phi(const Phi&): sources is filled from every read of the copy,
\* the guard slot included
PhiCopy(i, h, j) ==
    LET c == InstructionCopy(i, h, j)
    IN  [c EXCEPT !.inst.d = Back(c.inst.writes),
                  !.inst.sources = c.inst.reads,
                  !.inst.blocks = i.blocks]

\* Psi::Psi(const Psi&)
PsiCopy(i, h, j) ==
    LET c == InstructionCopy(i, h, j)
    IN  [c EXCEPT !.inst.d = Back(c.inst.writes),
                  !.inst.sources = c.inst.reads,
                  !.inst.predicates = i.predicates]

\* X::clone() is new X(*this): the copy constructor of the dynamic class
clone(i, h, j, u) ==
    CASE Shape(i.opcode) = "Unary"      -> UnaryCopy(i, h, j)
      [] Shape(i.opcode) = "Binary"     -> BinaryCopy(i, h, j)
      [] Shape(i.opcode) = "Comparison" -> ComparisonCopy(i, h, j)
      [] Shape(i.opcode) = "Atom"       -> AtomCopy(i, h, j, u)
      [] Shape(i.opcode) = "Bra"        -> BraCopy(i, h, j)
      [] Shape(i.opcode) = "Call"       -> CallCopy(i, h, j)
      [] Shape(i.opcode) = "Membar"     -> MembarCopy(i, h, j)
      [] Shape(i.opcode) = "St"         -> StCopy(i, h, j)
      [] Shape(i.opcode) = "Phi"        -> PhiCopy(i, h, j)
      [] Shape(i.opcode) = "Psi"        -> PsiCopy(i, h, j)
      [] OTHER                          -> InstructionCopy(i, h, j)

(***************************************************************************)
(* Instruction::toString, as a sequence of tokens.  It dereferences every  *)
(* slot, so it is defined only when no slot is null or freed.              *)
(***************************************************************************)
Rendered(x, h) ==
    /\ \A k \in 1..Len(x.reads)  : Live(h, x.reads[k])
    /\ \A k \in 1..Len(x.writes) : Live(h, x.writes[k])
    /\ Live(h, x.guard)

RECURSIVE WritesToString(_, _, _)
WritesToString(x, h, k) ==
    IF k > Len(x.writes) THEN <<>>
    ELSE (IF x.writes[k] # x.writes[1] THEN <<", ">> ELSE <<>>)
         \o OperandToString(h[x.writes[k]].val)
         \o WritesToString(x, h, k + 1)

RECURSIVE ReadsToString(_, _, _, _)
ReadsToString(x, h, k, first) ==
    IF k > Len(x.reads) THEN <<>>
    ELSE IF x.reads[k] = x.reads[1] THEN ReadsToString(x, h, k + 1, first)
    ELSE (IF ~first THEN <<", ">> ELSE <<>>)
         \o OperandToString(h[x.reads[k]].val)
         \o ReadsToString(x, h, k + 1, FALSE)

\* Instruction::toString printing the guard slot among the reads
toStringAllReads(x, h) ==
    (IF ~isAlwaysTrue(h[x.guard].val)
        THEN OperandToString(h[x.guard].val) \o <<" ">> ELSE <<>>)
    \o <<x.opcode, " ">>
    \o WritesToString(x, h, 1)
    \o (IF x.writes # <<>> /\ Len(x.reads) > 1 THEN <<", ">> ELSE <<>>)
    \o OperandToString(h[x.reads[1]].val)
    \o (IF Len(x.reads) > 1 THEN <<", ">> ELSE <<>>)
    \o ReadsToString(x, h, 1, TRUE)

toString(x, h) ==
    (IF ~isAlwaysTrue(h[x.guard].val)
        THEN OperandToString(h[x.guard].val) \o <<" ">> ELSE <<>>)
    \o <<x.opcode, " ">>
    \o WritesToString(x, h, 1)
    \o (IF x.writes # <<>> /\ Len(x.reads) > 1 THEN <<", ">> ELSE <<>>)
    \o ReadsToString(x, h, 1, TRUE)

(***************************************************************************)
(* The instruction model as a state machine: one object "orig" is built by *)
(* a constructor, "copy" is a clone of it, and callers apply the setters   *)
(* to either, handing over a freshly allocated operand each time.          *)
(***************************************************************************)
\* one opcode of every instruction class
CreatedOpcodes ==
    {"Bitcast", "Add", "Setp", "Atom", "Bar", "Membar", "Bra", "Call", "St",
     "Phi", "Psi"}

\* the block an instruction is created in
TheBlock == "BB0"
\* predecessor blocks of a Phi and predicate operands of a Psi, by address
Predecessors == {"BB1", "BB2"}
Predicates   == {"pred1", "pred2"}

Reg1 == [function |-> "f", id |-> 1, name |-> "r1"]
Reg2 == [function |-> "f", id |-> 2, name |-> "r2"]

\* the operands callers hand over
GuardValues ==
    {PredicateOperand(NoRegister, "PredicateTrue", NoInstruction),
     PredicateOperand(Reg1, "StraightPredicate", NoInstruction)}
OperandValues ==
    {RegisterOperand(Reg1, NoInstruction), RegisterOperand(Reg2, NoInstruction)}

NoObjects == [x \in {} |-> 0]
NoPre     == Instruction("", "")
NoLast    == [op |-> "", inst |-> "", key |-> "", pre |-> NoPre]
NoSnap    == [valid |-> FALSE, src |-> "", dst |-> "", inst |-> NoPre,
              heap |-> NoObjects, ops |-> 0]
NoCvt     == [d |-> "", a |-> "", opcode |-> ""]

\* the snapshot after an operation on object i: it is dropped when the
\* original itself is changed and counts the operations on the copy
Touch(i) ==
    IF snap.valid /\ i = snap.src THEN NoSnap
    ELSE IF snap.valid /\ i = snap.dst THEN [snap EXCEPT !.ops = @ + 1]
    ELSE snap

\* object i becomes r.inst over heap r.heap
Becomes(i, r, l) ==
    /\ insts' = [insts EXCEPT ![i] = r.inst]
    /\ heap' = r.heap
    /\ last' = l
    /\ snap' = Touch(i)
    /\ LET held == {r.inst.reads[k] : k \in 1..Len(r.inst.reads)}
           added == IF l.op = "addSource" THEN {Back(r.inst.reads)} ELSE {}
       IN  paired' = IF i # "orig" THEN paired
                     ELSE [o \in (DOMAIN paired \cap held) \cup added |->
                              IF o \in added THEN l.key ELSE paired[o]]

Did(op, i) == [op |-> op, inst |-> i, key |-> "", pre |-> NoPre]

NoTranslation == [pc |-> "idle"]
NoModule == [op |-> "idle"]

InstrInit ==
    /\ insts = NoObjects
    /\ heap = NoObjects
    /\ last = NoLast
    /\ snap = NoSnap
    /\ paired = NoObjects
    /\ cvt = NoCvt
    /\ tr = NoTranslation
    /\ mod = NoModule

\* Instruction::create and the constructors
Create(o, t) ==
    /\ "orig" \notin DOMAIN insts
    /\ insts' = [x \in {"orig"} |-> Construct(o, t, TheBlock)]
    /\ last' = Did("create", "orig")
    /\ UNCHANGED <<heap, snap, paired, cvt, tr, mod>>

\* callers work on the original until they copy it, then on the copy
Current(i) ==
    /\ i \in DOMAIN insts
    /\ i = "orig" => "copy" \notin DOMAIN insts
    /\ i = "copy" => snap.ops < MaxCopyOps

\* a setter applied to a new operand with value v, allocated for site
Set(i, site, v, setter(_, _, _)) ==
    /\ CanAllocate(heap, site)
    /\ LET o == NewAddress(heap, site)
       IN  Becomes(i, setter(insts[i], Allocate(heap, o, v), o), Did("set", i))
    /\ UNCHANGED <<cvt, tr, mod>>

SetGuard(i, v) ==
    /\ Current(i)
    /\ Set(i, <<i, "r", 1>>, v, setGuard)

SetD(i, v) ==
    /\ Current(i)
    /\ \/ /\ Shape(insts[i].opcode) \in
                {"Unary", "Binary", "Comparison", "Atom", "Phi", "Psi"}
          /\ Set(i, <<i, "w", 1>>, v, setD)
       \/ /\ Shape(insts[i].opcode) = "St"
          /\ Set(i, <<i, "r", 2>>, v, StSetD)

SetA(i, v) ==
    /\ Current(i)
    /\ \/ /\ Shape(insts[i].opcode) \in {"Unary", "Binary", "Comparison", "Atom"}
          /\ Set(i, <<i, "r", 2>>, v, setA)
       \/ /\ Shape(insts[i].opcode) = "St"
          /\ Set(i, <<i, "r", 3>>, v, StSetA)

SetB(i, v) ==
    /\ Current(i)
    /\ Shape(insts[i].opcode) \in {"Binary", "Comparison", "Atom"}
    /\ Set(i, <<i, "r", 3>>, v, setB)

SetTarget(i, v) ==
    /\ Current(i)
    /\ Shape(insts[i].opcode) \in {"Bra", "Call"}
    /\ Set(i, <<i, "r", 2>>, v, setTarget)

AddReturn(i, v) ==
    /\ Current(i)
    /\ Shape(insts[i].opcode) = "Call"
    /\ Len(insts[i].writes) < MaxSources
    /\ Set(i, <<i, "w", Len(insts[i].writes) + 1>>, v, addReturn)

AddArgument(i, v) ==
    /\ Current(i)
    /\ Shape(insts[i].opcode) = "Call"
    /\ Len(insts[i].reads) < MaxSources + 2
    /\ Set(i, <<i, "r", Len(insts[i].reads) + 1>>, v, addArgument)

\* addSource(new RegisterOperand, key) on a Phi or a Psi
AddSource(i, v, key) ==
    /\ Current(i)
    /\ Len(insts[i].reads) < MaxSources + 1
    /\ LET site == <<i, "r", Len(insts[i].reads) + 1>>
           o == NewAddress(heap, site)
           l == [op |-> "addSource", inst |-> i, key |-> key, pre |-> insts[i]]
       IN  /\ CanAllocate(heap, site)
           /\ \/ /\ insts[i].opcode = "Phi"
                 /\ key \in Predecessors
                 /\ Becomes(i, [inst |-> PhiAddSource(insts[i], o, key),
                                heap |-> Allocate(heap, o, v)], l)
              \/ /\ insts[i].opcode = "Psi"
                 /\ key \in Predicates
                 /\ Becomes(i, [inst |-> PsiAddSource(insts[i], key, o),
                                heap |-> Allocate(heap, o, v)], l)
    /\ UNCHANGED <<cvt, tr, mod>>

\* removeSource(key) on a Phi or a Psi; l.op tells whether it directly
\* follows the addSource of the same key on the same object
RemoveSource(i, key) ==
    /\ Current(i)
    /\ LET l == IF last.op = "addSource" /\ last.inst = i /\ last.key = key
                THEN [last EXCEPT !.op = "addSource;removeSource"]
                ELSE Did("removeSource", i)
       IN  \/ /\ insts[i].opcode = "Phi"
              /\ key \in Predecessors
              /\ Becomes(i, [inst |-> PhiRemoveSource(insts[i], key),
                             heap |-> heap], l)
           \/ /\ insts[i].opcode = "Psi"
              /\ key \in Predicates
              /\ Becomes(i, [inst |-> PsiRemoveSource(insts[i], key),
                             heap |-> heap], l)
    /\ UNCHANGED <<cvt, tr, mod>>

\* the values an uninitialised tag of a copy can hold
Indeterminate(i) == IF i.opcode = "Atom" THEN Tags ELSE {NoTag}

\* copy = orig->clone()
Clone ==
    /\ "orig" \in DOMAIN insts
    /\ "copy" \notin DOMAIN insts
    /\ \E u \in Indeterminate(insts["orig"]) :
          LET r == clone(insts["orig"], heap, "copy", u)
          IN  /\ insts' = [x \in {"orig", "copy"} |->
                              IF x = "copy" THEN r.inst ELSE insts[x]]
              /\ heap' = r.heap
              /\ snap' = [valid |-> TRUE, src |-> "orig", dst |-> "copy",
                          inst |-> insts["orig"], heap |-> heap,
                          ops |-> 0]
    /\ last' = Did("clone", "copy")
    /\ UNCHANGED <<paired, cvt, tr, mod>>

InstIds == {"orig", "copy"}

InstrNext ==
    \/ \E o \in CreatedOpcodes :
          \E t \in (IF HasTag(o) THEN Tags ELSE {NoTag}) : Create(o, t)
    \/ \E i \in InstIds, v \in GuardValues : SetGuard(i, v)
    \/ \E i \in InstIds, v \in OperandValues : SetD(i, v)
    \/ \E i \in InstIds, v \in OperandValues : SetA(i, v)
    \/ \E i \in InstIds, v \in OperandValues : SetB(i, v)
    \/ \E i \in InstIds, v \in OperandValues : SetTarget(i, v)
    \/ \E i \in InstIds, v \in OperandValues : AddReturn(i, v)
    \/ \E i \in InstIds, v \in OperandValues : AddArgument(i, v)
    \/ \E i \in InstIds, v \in OperandValues :
          \E key \in Predecessors \cup Predicates : AddSource(i, v, key)
    \/ \E i \in InstIds :
          \E key \in Predecessors \cup Predicates : RemoveSource(i, key)
    \/ Clone

SpecInstr == InstrInit /\ [][InstrNext]_vars

(***************************************************************************)
(* Properties of the instruction model.                                    *)
(***************************************************************************)
Operands(x) ==
    ({x.reads[k] : k \in 1..Len(x.reads)} \cup
     {x.writes[k] : k \in 1..Len(x.writes)}) \ {nullptr}

\* the original had every operand slot filled when it was copied
CopiedFilled == snap.valid /\ Rendered(snap.inst, snap.heap)

\* C1: when an instruction with every slot filled is cloned, the clone
\* renders to the same text as the original and shares no operand with it,
\* and after a setter has replaced an operand of the clone the original
\* still has the same operands, all alive and unchanged, and the same text
C1_CloneFidelity ==
    CopiedFilled =>
        /\ Operands(insts["copy"]) \cap Operands(insts["orig"]) = {}
        /\ snap.ops = 0 =>
              /\ Rendered(insts["copy"], heap)
              /\ toString(insts["copy"], heap) = toString(snap.inst, snap.heap)
        /\ insts["orig"] = snap.inst
        /\ \A o \in Operands(snap.inst) : heap[o] = snap.heap[o]
        /\ Rendered(insts["orig"], heap)
        /\ toString(insts["orig"], heap) = toString(snap.inst, snap.heap)

\* a setter has replaced an operand of the clone of a filled binary
\* instruction, so that the clone now renders differently
C1_Witness ==
    /\ CopiedFilled
    /\ snap.ops = 1
    /\ last.op = "set"
    /\ insts["orig"].opcode = "Add"
    /\ Rendered(insts["copy"], heap)
    /\ Len(insts["copy"].reads) = 3
    /\ toString(insts["copy"], heap) # toString(insts["orig"], heap)

\* the joining metadata of a Phi or Psi
Joins(x) == IF x.opcode = "Phi" THEN x.blocks ELSE x.predicates

\* C2: in a Phi or Psi built by its constructor, after any addSource and
\* removeSource calls, reads has one entry more than sources, sources has
\* as many entries as blocks (predicates), sources[i] is the operand in
\* reads[i+1], and it is paired with the block (predicate) it was added with
C2_PhiPsiParity ==
    ("orig" \in DOMAIN insts /\ insts["orig"].opcode \in {"Phi", "Psi"}) =>
        LET x == insts["orig"]
        IN  /\ Len(x.reads) - 1 = Len(x.sources)
            /\ Len(x.sources) = Len(Joins(x))
            /\ \A k \in 1..Len(x.sources) :
                  /\ x.sources[k] = x.reads[k + 1]
                  /\ x.sources[k] \in DOMAIN paired
                  /\ paired[x.sources[k]] = Joins(x)[k]

\* a Phi that holds a source after an earlier source has been removed
C2_Witness ==
    /\ "orig" \in DOMAIN insts
    /\ insts["orig"].opcode = "Phi"
    /\ last.op = "removeSource"
    /\ Len(insts["orig"].sources) = 1
    /\ insts["orig"].sources[1][3] = 3

\* C3 as claimed: addSource(r, p) directly followed by removeSource(p)
\* leaves reads, sources and blocks (predicates) as they were before the
\* addSource, whether or not p was already paired with a source
C3_AddRemoveRestores ==
    last.op = "addSource;removeSource" =>
        /\ insts[last.inst].reads = last.pre.reads
        /\ insts[last.inst].sources = last.pre.sources
        /\ insts[last.inst].blocks = last.pre.blocks
        /\ insts[last.inst].predicates = last.pre.predicates

(***************************************************************************)
(* The PTX side.  PTXInstruction and PTXOperand belong to Ocelot; they are *)
(* modelled by the fields the translator reads.                            *)
(***************************************************************************)
\* the PTXOperand::DataType values translateTypeName knows
IntegerTypes ==
    {"b8", "s8", "u8", "s16", "u16", "b16", "s32", "b32", "u32",
     "s64", "b64", "u64"}
FloatTypes == {"f32", "f64"}
DataTypes  == IntegerTypes \cup FloatTypes \cup {"pred"}

\* PTXOperand::isFloat
isFloat(t) == t \in FloatTypes

\* PTXOperand::isSigned
isSigned(t) == t \in {"s8", "s16", "s32", "s64"}

\* PTXOperand::bytes
bytes(t) ==
    CASE t \in {"b8", "s8", "u8", "pred"}   -> 1
      [] t \in {"b16", "s16", "u16"}        -> 2
      [] t \in {"b32", "s32", "u32", "f32"} -> 4
      [] OTHER                              -> 8

\* a PTXOperand
PTXOperand(mode, type) ==
    [addressMode |-> mode, type |-> type, reg |-> 0, offset |-> 0,
     imm_uint |-> 0, identifier |-> "", isArgument |-> FALSE,
     special |-> "", vIndex |-> 0, condition |-> "PT"]

InvalidOperand == PTXOperand("Invalid", "")

\* a PTXInstruction
PTXInstruction(opcode, type, pg, d, a, b) ==
    [opcode |-> opcode, modifier |-> "Modifier_invalid", type |-> type,
     addressSpace |-> "", pg |-> pg, d |-> d, a |-> a, b |-> b]

\* what a factory returns when it has no case for the opcode
NullInstruction == "nullptr"

\* newUnaryInstruction with the two float-to-float cases exchanged
newUnaryInstructionSwapped(ptx) ==
    IF ptx.opcode = "Cvt" /\ isFloat(ptx.d.type) /\ isFloat(ptx.a.type)
    THEN IF ptx.d.type = "f32"
         THEN (IF ptx.a.type = "f32" THEN "Bitcast" ELSE "Fpext")
         ELSE (IF ptx.a.type = "f32" THEN "Fptrunc" ELSE "Bitcast")
    ELSE IF ptx.opcode = "Cvt" /\ isFloat(ptx.d.type)
    THEN (IF isSigned(ptx.a.type) THEN "Sitofp" ELSE "Uitofp")
    ELSE NullInstruction

\* newUnaryInstruction: the opcode of the instruction it allocates
newUnaryInstruction(ptx) ==
    CASE ptx.opcode \in {"Ld", "Ldu"} -> "Ld"
      [] ptx.opcode = "Mov" -> "Bitcast"
      [] ptx.opcode = "Cvt" ->
            IF isFloat(ptx.d.type)
            THEN IF isFloat(ptx.a.type)
                 THEN IF ptx.d.type = "f32"
                      THEN (IF ptx.a.type = "f32" THEN "Bitcast" ELSE "Fptrunc")
                      ELSE (IF ptx.a.type = "f32" THEN "Fpext" ELSE "Bitcast")
                 ELSE IF isSigned(ptx.a.type) THEN "Sitofp"
                 ELSE "Uitofp"
            ELSE IF isSigned(ptx.d.type)
            THEN IF isFloat(ptx.a.type) THEN "Fptosi"
                 ELSE IF bytes(ptx.a.type) > bytes(ptx.d.type) THEN "Trunc"
                 ELSE IF bytes(ptx.d.type) = bytes(ptx.a.type) THEN "Bitcast"
                 ELSE IF isSigned(ptx.a.type) THEN "Sext"
                 ELSE "Zext"
            ELSE IF isFloat(ptx.a.type) THEN "Fptoui"
                 ELSE IF bytes(ptx.a.type) > bytes(ptx.d.type) THEN "Trunc"
                 ELSE IF bytes(ptx.d.type) = bytes(ptx.a.type) THEN "Bitcast"
                 ELSE "Zext"
      [] OTHER -> NullInstruction

\* isSimpleUnaryInstruction
isSimpleUnaryInstruction(ptx) ==
    \/ ptx.opcode \in {"Ld", "Ldu", "Mov", "St"}
    \/ ptx.opcode = "Cvt" /\ ptx.modifier = "Modifier_invalid"

\* isSimpleBinaryInstruction
isSimpleBinaryInstruction(ptx) ==
    ptx.opcode \in
        {"Add", "And", "Div", "Mul", "Not", "Or", "Rem", "Shl", "Sub", "Xor"}

(***************************************************************************)
(* Lowering of convert instructions: every pair of a destination and a     *)
(* source type is tried.                                                   *)
(***************************************************************************)
ConvertTypes == IntegerTypes \cup FloatTypes

\* cvt.d.a: a convert without modifier from type a to type d
Convert(d, a) ==
    PTXInstruction("Cvt", d, InvalidOperand, PTXOperand("Register", d),
                   PTXOperand("Register", a), InvalidOperand)

NotLowered == ""

CvtInit ==
    /\ \E d \in ConvertTypes, a \in ConvertTypes :
          cvt = [d |-> d, a |-> a, opcode |-> NotLowered]
    /\ insts = NoObjects
    /\ heap = NoObjects
    /\ last = NoLast
    /\ snap = NoSnap
    /\ paired = NoObjects
    /\ tr = NoTranslation
    /\ mod = NoModule

\* the opcode _translateInstruction picks for the convert: the binary rule
\* declines it and the unary rule builds it with newUnaryInstruction
LowerConvert ==
    /\ cvt.opcode = NotLowered
    /\ LET ptx == Convert(cvt.d, cvt.a)
       IN  /\ ~isSimpleBinaryInstruction(ptx)
           /\ isSimpleUnaryInstruction(ptx)
           /\ cvt' = [cvt EXCEPT !.opcode = newUnaryInstruction(ptx)]
    /\ UNCHANGED <<insts, heap, last, snap, paired, tr, mod>>

SpecCvt == CvtInit /\ [][LowerConvert]_vars

\* the conversion decision table: a type is a float, a signed integer or
\* another (unsigned or untyped) integer, of some width in bits
Width(t) == 8 * bytes(t)
ConversionTable(d, a) ==
    CASE isFloat(d) /\ isFloat(a) /\ Width(a) = Width(d) -> "Bitcast"
      [] isFloat(d) /\ isFloat(a) /\ Width(a) < Width(d) -> "Fpext"
      [] isFloat(d) /\ isFloat(a) /\ Width(a) > Width(d) -> "Fptrunc"
      [] isFloat(d) /\ isSigned(a)                       -> "Sitofp"
      [] isFloat(d) /\ ~isFloat(a) /\ ~isSigned(a)       -> "Uitofp"
      [] isSigned(d) /\ isFloat(a)                       -> "Fptosi"
      [] ~isFloat(d) /\ ~isSigned(d) /\ isFloat(a)       -> "Fptoui"
      [] ~isFloat(d) /\ ~isFloat(a) /\ Width(a) > Width(d) -> "Trunc"
      [] ~isFloat(d) /\ ~isFloat(a) /\ Width(a) = Width(d) -> "Bitcast"
      [] isSigned(d) /\ isSigned(a) /\ Width(a) < Width(d) -> "Sext"
      [] isSigned(d) /\ ~isFloat(a) /\ ~isSigned(a) /\ Width(a) < Width(d) -> "Zext"
      [] ~isFloat(d) /\ ~isSigned(d) /\ ~isFloat(a) /\ Width(a) < Width(d) -> "Zext"
      [] OTHER -> "no rule"

\* C4: the opcode chosen for a convert without modifier is the entry of
\* the conversion decision table for its destination and source types,
\* and the table has an entry for every pair
C4_ConversionTable ==
    cvt.opcode # NotLowered =>
        /\ cvt.opcode = ConversionTable(cvt.d, cvt.a)
        /\ cvt.opcode \in {"Bitcast", "Fpext", "Fptrunc", "Sitofp", "Uitofp",
                           "Fptosi", "Fptoui", "Trunc", "Sext", "Zext"}

\* cvt.f64.f32 has been lowered to a float extension
C4_Witness ==
    cvt = [d |-> "f64", a |-> "f32", opcode |-> "Fpext"]

(***************************************************************************)
(* The translator.  tr holds the fields of PTXToVIRTranslator, the part of *)
(* the source module read so far (tr.ptx) and the position of translate()  *)
(* in its loops (tr.pc, tr.pass, tr.cursor).  A fatal error is recorded in *)
(* tr.error and ends the call.  tr.assertions tells whether the build has   *)
(* its assertions compiled in.                                             *)
(***************************************************************************)
\* bound of the source modules translated: the number of their globals,
\* kernels, referenced registers, body blocks and instructions
MaxSize == 6

\* Compiler::getType: the type names of the target
TargetTypes == {"i1", "i8", "i16", "i32", "i64", "f32", "f64"}

\* translateTypeName
translateTypeName(type) ==
    CASE type \in {"b8", "s8", "u8"}     -> "i8"
      [] type \in {"s16", "u16", "b16"}  -> "i16"
      [] type \in {"s32", "b32", "u32"}  -> "i32"
      [] type \in {"s64", "b64", "u64"}  -> "i64"
      [] type = "f32"                    -> "f32"
      [] type = "f64"                    -> "f64"
      [] type = "pred"                   -> "i1"
      [] OTHER                           -> ""

\* PTXToVIRTranslator::_getType(const std::string&): the type, or the
\* error it throws
getType(typeName) ==
    IF typeName \in TargetTypes
    THEN [type |-> typeName, error |-> ""]
    ELSE [type |-> "", error |-> "invalid type"]

\* a linkage mapping that makes every global private
translateLinkagePrivate(attr) == "PrivateLinkage"

\* PTXToVIRTranslator::_translateLinkage
translateLinkage(attr) ==
    IF attr = "Extern" THEN "ExternalLinkage" ELSE "PrivateLinkage"

\* PTXToVIRTranslator::_translateLinkingDirective
translateLinkingDirective(d) ==
    IF d = "Extern" THEN "ExternalLinkage" ELSE "PrivateLinkage"

\* Module::Module
Module(n) == [name |-> n, globals |-> <<>>, functions |-> <<>>]

\* Function::Function: a function starts with its entry and exit blocks
BasicBlock(name) == [name |-> name, instructions |-> <<>>]
Function(name, l) ==
    [name |-> name, linkage |-> l, registers |-> <<>>, arguments |-> <<>>,
     blocks |-> <<BasicBlock("_entry"), BasicBlock("_exit")>>]

\* Module::newGlobal
newGlobal(m, name, t, l) ==
    [m EXCEPT !.globals = Append(@, [name |-> name, type |-> t, linkage |-> l])]

\* Module::newFunction
newFunction(m, name, l) ==
    [m EXCEPT !.functions = Append(@, Function(name, l))]

\* Module::getGlobal: the position of the first global of that name, or
\* the end of the list
getGlobal(m, name) ==
    LET found == {k \in 1..Len(m.globals) : m.globals[k].name = name}
    IN  IF found = {} THEN Len(m.globals) + 1
        ELSE CHOOSE k \in found : \A j \in found : k <= j

\* a lookup that returns the last function of that name
getFunctionLast(m, name) ==
    LET found == {k \in 1..Len(m.functions) : m.functions[k].name = name}
    IN  IF found = {} THEN Len(m.functions) + 1
        ELSE CHOOSE k \in found : \A j \in found : k >= j

\* Module::getFunction
getFunction(m, name) ==
    LET found == {k \in 1..Len(m.functions) : m.functions[k].name = name}
    IN  IF found = {} THEN Len(m.functions) + 1
        ELSE CHOOSE k \in found : \A j \in found : k <= j

\* Function::newVirtualRegister: a register with the next id of the function
newVirtualRegister(f, type, name) ==
    [f EXCEPT !.registers =
        Append(@, [id |-> Len(f.registers), type |-> type, name |-> name])]

\* a VirtualRegister*: the function that owns the register and its id
RegisterOf(f, k) ==
    [function |-> f.name, id |-> f.registers[k].id, name |-> f.registers[k].name]

\* Function::exit_block: the position of the terminal block
exit_block(f) == Len(f.blocks)

\* Function::newBasicBlock: insert a block ahead of position
newBasicBlock(f, position, name) ==
    [f EXCEPT !.blocks = SubSeq(@, 1, position - 1) \o <<BasicBlock(name)>>
                         \o SubSeq(@, position, Len(@))]

\* the lookup of a std::map
Find(map, key) == key \in DOMAIN map
Insert(map, key, value) ==
    [k \in DOMAIN map \cup {key} |-> IF k = key THEN value ELSE map[k]]

\* the function under translation
TheFunction(t) == t._module.functions[t._function]

\* the value of an uninitialised pointer member
Uninitialised == -1

\* PTXToVIRTranslator::PTXToVIRTranslator: only _compiler is initialised;
\* the maps are empty
Translator ==
    [pc |-> "start", error |-> "", pass |-> 0, cursor |-> 0, icursor |-> 0,
     assertions |-> TRUE,
     ptx |-> [globals |-> <<>>, kernels |-> <<>>],
     compiler |-> <<>>,
     _module |-> Module(""), _function |-> 0, _block |-> 0,
     _instruction |-> Uninitialised, created |-> 0,
     _ptxInstruction |-> PTXInstruction("", "", InvalidOperand, InvalidOperand,
                                        InvalidOperand, InvalidOperand),
     _registers |-> NoObjects, _specialRegisters |-> NoObjects,
     _blocks |-> NoObjects]

\* a throw: the call ends with the error
Throw(t, e) == [t EXCEPT !.error = e, !.pc = "failed"]

\* assertM(false, e): the call ends where assertions are compiled in, and
\* nothing happens where they are compiled out
assertM(t, e) == IF t.assertions THEN Throw(t, e) ELSE t

(***************************************************************************)
(* Lowering of operands.  Each operator yields the translator after the    *)
(* call (t, with t.error set when it throws) and the operand built.        *)
(***************************************************************************)
NoOperand == Garbage

\* a lookup that hands out a null register where the id is not in the table
getRegisterUnchecked(t, id) ==
    IF ~Find(t._registers, id)
    THEN [t |-> t, reg |-> NoRegister]
    ELSE [t |-> t, reg |-> t._registers[id]]

\* PTXToVIRTranslator::_getRegister
getRegister(t, id) ==
    IF ~Find(t._registers, id)
    THEN [t |-> Throw(t, "register used without declaration"),
          reg |-> NoRegister]
    ELSE [t |-> t, reg |-> t._registers[id]]

\* PTXToVIRTranslator::_getGlobal
getGlobalVariable(t, name) ==
    LET global == getGlobal(t._module, name)
    IN  IF global = Len(t._module.globals) + 1
        THEN [t |-> Throw(t, "global used without declaration"),
              value |-> NoValue]
        ELSE [t |-> t,
              value |-> [kind |-> "Global", function |-> "", name |-> name]]

\* PTXToVIRTranslator::_getBasicBlock
getBasicBlock(t, name) ==
    IF ~Find(t._blocks, name)
    THEN [t |-> Throw(t, "basic block not declared"), value |-> NoValue]
    ELSE [t |-> t, value |-> t._blocks[name]]

\* PTXToVIRTranslator::_getArgument
getArgument(t, name) ==
    LET f == TheFunction(t)
        found == {k \in 1..Len(f.arguments) : f.arguments[k] = name}
    IN  IF found = {}
        THEN [t |-> Throw(t, "argument not declared"), value |-> NoValue]
        ELSE [t |-> t,
              value |-> [kind |-> "Argument", function |-> f.name,
                         name |-> name]]

\* the special registers that have lanes
VectorSpecials ==
    {"tid", "ntid", "ctaId", "nctaId", "smId", "nsmId", "gridId"}

\* PTXOperand::SpecialRegister, PTXOperand::VectorIndex and PTXOperand::v1
SpecialId(special) ==
    CASE special = "tid" -> 0 [] special = "ntid" -> 1
      [] special = "laneId" -> 2 [] special = "warpId" -> 3
      [] special = "nwarpId" -> 4 [] special = "warpSize" -> 5
      [] special = "ctaId" -> 6 [] special = "nctaId" -> 7
      [] special = "smId" -> 8 [] special = "nsmId" -> 9
      [] OTHER -> 10
VectorIndexName(vIndex) ==
    CASE vIndex = 1 -> "x" [] vIndex = 2 -> "y" [] vIndex = 3 -> "z"
      [] vIndex = 4 -> "w" [] OTHER -> ""
v1 == 1

\* the name given to the register of a special: the lane suffix is added
\* when the index equals v1 and the special has lanes
SpecialName(special, vectorIndex) ==
    LET isScalar == special \notin VectorSpecials
    IN  IF vectorIndex # v1 \/ isScalar
        THEN "%" \o special
        ELSE ("%" \o special) \o ("_" \o VectorIndexName(vectorIndex))

\* PTXToVIRTranslator::_getSpecialVirtualRegister
getSpecialVirtualRegister(t, special, vectorIndex) ==
    LET hash == SpecialId(special) * 16 + vectorIndex
        ty   == getType("i32")
        f    == newVirtualRegister(TheFunction(t), ty.type,
                                   SpecialName(special, vectorIndex))
        new  == RegisterOf(f, Len(f.registers))
    IN  IF Find(t._specialRegisters, hash)
        THEN [t |-> t, reg |-> t._specialRegisters[hash]]
        ELSE [t |-> [t EXCEPT !._module.functions[t._function] = f,
                              !._specialRegisters = Insert(@, hash, new)],
              reg |-> new]

\* PTXToVIRTranslator::_newTemporaryRegister
newTemporaryRegister(t) ==
    LET f == newVirtualRegister(TheFunction(t), getType("i64").type, "")
    IN  [t |-> [t EXCEPT !._module.functions[t._function] = f],
         reg |-> RegisterOf(f, Len(f.registers))]

\* PTXToVIRTranslator::_newTranslatedOperand
newTranslatedOperand(t, ptx) ==
    CASE ptx.addressMode = "Register" ->
            LET r == getRegister(t, ptx.reg)
            IN  [t |-> r.t, operand |-> RegisterOperand(r.reg, t._instruction)]
      [] ptx.addressMode = "Indirect" ->
            LET r == getRegister(t, ptx.reg)
            IN  [t |-> r.t,
                 operand |-> IndirectOperand(r.reg, ptx.offset, t._instruction)]
      [] ptx.addressMode = "Immediate" ->
            [t |-> t, operand |-> ImmediateOperand(ptx.imm_uint, t._instruction)]
      [] ptx.addressMode = "Address" ->
            IF t._ptxInstruction.addressSpace = "Param" /\ ptx.isArgument
            THEN LET a == getArgument(t, ptx.identifier)
                 IN  [t |-> a.t,
                      operand |-> ArgumentOperand(a.value, t._instruction)]
            ELSE LET g == getGlobalVariable(t, ptx.identifier)
                 IN  [t |-> g.t,
                      operand |-> AddressOperand(g.value, t._instruction)]
      [] ptx.addressMode = "Label" ->
            LET b == getBasicBlock(t, ptx.identifier)
            IN  [t |-> b.t, operand |-> AddressOperand(b.value, t._instruction)]
      [] ptx.addressMode = "Special" ->
            LET r == getSpecialVirtualRegister(t, ptx.special, ptx.vIndex)
            IN  [t |-> r.t, operand |-> RegisterOperand(r.reg, t._instruction)]
      [] ptx.addressMode = "BitBucket" ->
            LET r == newTemporaryRegister(t)
            IN  [t |-> r.t, operand |-> RegisterOperand(r.reg, t._instruction)]
      [] OTHER ->
            [t |-> Throw(t, "no translation implemented for operand"),
             operand |-> NoOperand]

\* a translation that loses the polarity of the predicate
translatePredicateConditionStraight(c) ==
    CASE c = "PT"  -> "PredicateTrue"
      [] c = "nPT" -> "PredicateFalse"
      [] OTHER     -> "StraightPredicate"

\* translatePredicateCondition
translatePredicateCondition(c) ==
    CASE c = "PT"      -> "PredicateTrue"
      [] c = "nPT"     -> "PredicateFalse"
      [] c = "Pred"    -> "StraightPredicate"
      [] c = "InvPred" -> "InversePredicate"
      [] OTHER         -> "StraightPredicate"

\* PTXToVIRTranslator::_translatePredicateOperand
translatePredicateOperand(t, ptx) ==
    LET r == IF ptx.condition # "PT" /\ ptx.condition # "nPT"
             THEN getRegister(t, ptx.reg)
             ELSE [t |-> t, reg |-> NoRegister]
    IN  [t |-> r.t,
         operand |-> PredicateOperand(r.reg,
                        translatePredicateCondition(ptx.condition),
                        t._instruction)]

(***************************************************************************)
(* Lowering of instructions.  A lowered instruction is the record of its   *)
(* identity, opcode and the operands installed by the setters.             *)
(***************************************************************************)
\* a factory that takes every integer division and remainder for unsigned
newBinaryInstructionUnsigned(ptx) ==
    CASE ptx.opcode \in {"Add", "And", "Or", "Shl", "Sub", "Xor"} -> ptx.opcode
      [] ptx.opcode = "Div" -> IF isFloat(ptx.type) THEN "Fdiv" ELSE "Udiv"
      [] ptx.opcode = "Mul" -> IF isFloat(ptx.type) THEN "Fmul" ELSE "Mul"
      [] ptx.opcode = "Rem" -> IF isFloat(ptx.type) THEN "Frem" ELSE "Urem"
      [] OTHER -> NullInstruction

\* newBinaryInstruction: the opcode of the instruction it allocates
newBinaryInstruction(ptx) ==
    CASE ptx.opcode = "Add" -> "Add"
      [] ptx.opcode = "And" -> "And"
      [] ptx.opcode = "Div" ->
            IF isFloat(ptx.type) THEN "Fdiv"
            ELSE IF isSigned(ptx.type) THEN "Sdiv" ELSE "Udiv"
      [] ptx.opcode = "Mul" -> IF isFloat(ptx.type) THEN "Fmul" ELSE "Mul"
      [] ptx.opcode = "Or"  -> "Or"
      [] ptx.opcode = "Rem" ->
            IF isFloat(ptx.type) THEN "Frem"
            ELSE IF isSigned(ptx.type) THEN "Srem" ELSE "Urem"
      [] ptx.opcode = "Shl" -> "Shl"
      [] ptx.opcode = "Sub" -> "Sub"
      [] ptx.opcode = "Xor" -> "Xor"
      [] OTHER -> NullInstruction

\* _block->push_back(vir)
push_back(t, vir) ==
    [t EXCEPT !._module.functions[t._function].blocks[t._block].instructions =
                  Append(@, vir)]

\* what a block holds after push_back of a null instruction pointer
NullLowered ==
    [id |-> NoInstruction, opcode |-> NullInstruction,
     reads |-> <<>>, writes |-> <<>>]

\* the outcomes of lowering ptx.  Where the rule that accepts ptx gets a
\* null pointer from its factory, the setters are called on it, which is
\* undefined: the call crashes, or it goes on and appends the null pointer.
Outcomes(ptx) ==
    IF \/ isSimpleBinaryInstruction(ptx)
          /\ newBinaryInstruction(ptx) = NullInstruction
       \/ /\ ~isSimpleBinaryInstruction(ptx)
          /\ isSimpleUnaryInstruction(ptx)
          /\ newUnaryInstruction(ptx) = NullInstruction
    THEN {"crash", "survive"}
    ELSE {"defined"}

\* PTXToVIRTranslator::_translateSimpleUnaryInstruction, for an instruction
\* isSimpleUnaryInstruction accepts; u is the outcome of the undefined
\* calls on a null vir (no case in newUnaryInstruction)
translateSimpleUnaryInstruction(t, ptx, u) ==
    LET vir == newUnaryInstruction(ptx)
        id  == IF vir = NullInstruction THEN NoInstruction ELSE t.created + 1
        t0  == [t EXCEPT !._instruction = id,
                         !.created = IF vir = NullInstruction THEN @ ELSE @ + 1]
        g   == translatePredicateOperand(t0, ptx.pg)
        d   == newTranslatedOperand(g.t, ptx.d)
        a   == newTranslatedOperand(d.t, ptx.a)
    IN  IF g.t.error # "" THEN g.t
        ELSE IF vir = NullInstruction /\ u = "crash"
             THEN Throw(g.t, "null instruction")
        ELSE IF d.t.error # "" THEN d.t
        ELSE IF a.t.error # "" THEN a.t
        ELSE IF vir = NullInstruction THEN push_back(a.t, NullLowered)
        ELSE push_back(a.t, [id |-> id, opcode |-> vir,
                             reads |-> <<g.operand, a.operand>>,
                             writes |-> <<d.operand>>])

\* PTXToVIRTranslator::_translateSimpleBinaryInstruction, for an
\* instruction isSimpleBinaryInstruction accepts
translateSimpleBinaryInstruction(t, ptx, u) ==
    LET vir == newBinaryInstruction(ptx)
        id  == IF vir = NullInstruction THEN NoInstruction ELSE t.created + 1
        t0  == [t EXCEPT !.created = IF vir = NullInstruction THEN @ ELSE @ + 1]
        g   == translatePredicateOperand(t0, ptx.pg)
        d   == newTranslatedOperand(g.t, ptx.d)
        a   == newTranslatedOperand(d.t, ptx.a)
        b   == newTranslatedOperand(a.t, ptx.b)
    IN  IF g.t.error # "" THEN g.t
        ELSE IF vir = NullInstruction /\ u = "crash"
             THEN Throw(g.t, "null instruction")
        ELSE IF d.t.error # "" THEN d.t
        ELSE IF a.t.error # "" THEN a.t
        ELSE IF b.t.error # "" THEN b.t
        ELSE IF vir = NullInstruction THEN push_back(b.t, NullLowered)
        ELSE push_back(b.t, [id |-> id, opcode |-> vir,
                             reads |-> <<g.operand, a.operand, b.operand>>,
                             writes |-> <<d.operand>>])

\* PTXToVIRTranslator::_translateComplexInstruction
translateComplexInstruction(ptx) == FALSE

\* PTXToVIRTranslator::_translateInstruction
translateInstruction(t, ptx, u) ==
    LET t0 == [t EXCEPT !._ptxInstruction = ptx]
    IN  IF translateComplexInstruction(ptx) THEN t0
        ELSE IF isSimpleBinaryInstruction(ptx)
             THEN translateSimpleBinaryInstruction(t0, ptx, u)
        ELSE IF isSimpleUnaryInstruction(ptx)
             THEN translateSimpleUnaryInstruction(t0, ptx, u)
        ELSE assertM(t0, "no translation implemented for instruction")

\* Bra::isUnconditional, of a lowered instruction
isUnconditional(vir) == isAlwaysTrue(vir.reads[1])

\* Bra::targetBasicBlock, of a lowered instruction whose target is a basic
\* block
targetBasicBlock(vir) == vir.reads[2].globalValue

(***************************************************************************)
(* The source modules translated.                                          *)
(***************************************************************************)
Reg(id) == [PTXOperand("Register", "u32") EXCEPT !.reg = id]
Ind(id, offset) ==
    [PTXOperand("Indirect", "u32") EXCEPT !.reg = id, !.offset = offset]
Special(special, vIndex) ==
    [PTXOperand("Special", "u32") EXCEPT !.special = special,
                                         !.vIndex = vIndex]
Label(name) == [PTXOperand("Label", "u32") EXCEPT !.identifier = name]
Guard(condition, id) ==
    [PTXOperand("Register", "pred") EXCEPT !.condition = condition,
                                           !.reg = id]
Always == Guard("PT", 0)

\* the instructions source blocks are made of:
\*   add.u32 r1, r1, r2;  ld.u32 r1, [r2+4];  @r2 mov.u32 r1, r1;
\*   mov.u32 r1, %tid.y;  mov.u32 r1, %tid.z;  bra.uni L1
PTXInstructions ==
    {PTXInstruction("Add", "u32", Always, Reg(1), Reg(1), Reg(2)),
     PTXInstruction("Ld", "u32", Always, Reg(1), Ind(2, 4), InvalidOperand),
     PTXInstruction("Mov", "u32", Guard("Pred", 2), Reg(1), Reg(1),
                    InvalidOperand),
     PTXInstruction("Mov", "u32", Always, Reg(1), Special("tid", 2),
                    InvalidOperand),
     PTXInstruction("Mov", "u32", Always, Reg(1), Special("tid", 3),
                    InvalidOperand),
     PTXInstruction("Bra", "u32", Always, Label("L1"), InvalidOperand,
                    InvalidOperand)}

\* ids and types of the registers kernels reference; f16 has no target type
ReferencedRegisters ==
    {[id |-> 1, type |-> "u32"], [id |-> 2, type |-> "u32"],
     [id |-> 2, type |-> "f16"]}

\* attribute and initializedBytes of the globals
Globals ==
    {[attribute |-> "Extern", initializedBytes |-> 0],
     [attribute |-> "NoAttribute", initializedBytes |-> 0],
     [attribute |-> "NoAttribute", initializedBytes |-> 4]}
LinkingDirectives == {"Extern", "Visible"}

PTXBlock(kind, label) ==
    [kind |-> kind, label |-> label, instructions |-> <<>>]

\* the kernel under translation and its executable sequence
Kernel(t) == t.ptx.kernels[Len(t.ptx.kernels)]

RECURSIVE Sum(_)
Sum(seq) == IF seq = <<>> THEN 0 ELSE seq[1] + Sum(Tail(seq))

BodyBlocks(kernel) ==
    Len(SelectSeq(kernel.sequence, LAMBDA b : b.kind = "body"))
Instructions(kernel) ==
    Sum([k \in 1..Len(kernel.sequence) |->
            Len(kernel.sequence[k].instructions)])
TotalRegisters(t) ==
    Sum([k \in 1..Len(t.ptx.kernels) |-> Len(t.ptx.kernels[k].registers)])
TotalBlocks(t) ==
    Sum([k \in 1..Len(t.ptx.kernels) |-> BodyBlocks(t.ptx.kernels[k])])
TotalInstructions(t) ==
    Sum([k \in 1..Len(t.ptx.kernels) |-> Instructions(t.ptx.kernels[k])])

\* the size of the part of the source module read so far
Size(t) ==
    Len(t.ptx.globals) + Len(t.ptx.kernels) + TotalRegisters(t)
        + TotalBlocks(t) + TotalInstructions(t)

(***************************************************************************)
(* translate(), one step per call made by its loops.  The source module is *)
(* read as the first loop over it meets it; the second loop over the       *)
(* blocks of a kernel meets the same blocks again.                         *)
(***************************************************************************)
DuplicateError  == "added duplicate virtual register"
UndeclaredError == "register used without declaration"

\* PTXToVIRTranslator::_translateGlobal
translateGlobal(t, global) ==
    LET ty == getType(translateTypeName(global.type))
        t1 == [t EXCEPT !._module =
                  newGlobal(@, global.name, ty.type,
                            translateLinkage(global.attribute))]
    IN  IF ty.error # "" THEN Throw(t, ty.error)
        ELSE IF global.initializedBytes # 0
             THEN assertM(t1, "not implemented")
        ELSE t1

\* PTXToVIRTranslator::_translateRegisterValue
translateRegisterValue(t, reg, type) ==
    LET ty == getType(translateTypeName(type))
        f  == newVirtualRegister(TheFunction(t), ty.type, "r" \o ToString(reg))
    IN  IF Find(t._registers, reg) THEN Throw(t, DuplicateError)
        ELSE IF ty.error # "" THEN Throw(t, ty.error)
        ELSE [t EXCEPT !._module.functions[t._function] = f,
                       !._registers =
                           Insert(@, reg, RegisterOf(f, Len(f.registers)))]

\* PTXToVIRTranslator::_translateBasicBlock, up to its loop
translateBasicBlock(t, basicBlock) ==
    LET f == TheFunction(t)
        position == exit_block(f)
    IN  [t EXCEPT !._module.functions[t._function] =
                      newBasicBlock(f, position, basicBlock.label),
                  !._block = position]

TransInit ==
    /\ \E a \in BOOLEAN : tr = [Translator EXCEPT !.assertions = a]
    /\ insts = NoObjects
    /\ heap = NoObjects
    /\ last = NoLast
    /\ snap = NoSnap
    /\ paired = NoObjects
    /\ cvt = NoCvt
    /\ mod = NoModule

\* translate, up to its first loop
Translate ==
    /\ tr.pc = "start"
    /\ tr' = [tr EXCEPT !.compiler = Append(@, "ptx"),
                        !._module = Module("ptx"),
                        !.pc = "globals"]
    /\ UNCHANGED <<insts, heap, last, snap, paired, cvt, mod>>

\* one turn of the loop over the globals
TranslateGlobal(attribute, initializedBytes) ==
    /\ tr.pc = "globals"
    /\ Size(tr) < MaxSize
    /\ LET global == [name |-> "g" \o ToString(Len(tr.ptx.globals) + 1),
                      type |-> "u32", attribute |-> attribute,
                      initializedBytes |-> initializedBytes]
       IN  tr' = translateGlobal(
                    [tr EXCEPT !.ptx.globals = Append(@, global)], global)
    /\ UNCHANGED <<insts, heap, last, snap, paired, cvt, mod>>

\* one turn of the loop over the kernels: _translateKernel up to its loops
TranslateKernel(linkingDirective) ==
    /\ tr.pc \in {"globals", "kernels"}
    /\ Size(tr) < MaxSize
    /\ LET name == "k" \o ToString(Len(tr.ptx.kernels) + 1)
           kernel == [name |-> name, linkingDirective |-> linkingDirective,
                      registers |-> <<>>, sequence |-> <<>>]
       IN  tr' = [tr EXCEPT
                    !.ptx.kernels = Append(@, kernel),
                    !._module = newFunction(@, name,
                                    translateLinkingDirective(linkingDirective)),
                    !._function = Len(tr._module.functions) + 1,
                    !.pc = "registers"]
    /\ UNCHANGED <<insts, heap, last, snap, paired, cvt, mod>>

\* one turn of the loop over the referenced registers
TranslateRegisterValue(reg, type) ==
    /\ tr.pc = "registers"
    /\ Size(tr) < MaxSize
    /\ tr' = translateRegisterValue(
                [tr EXCEPT !.ptx.kernels[Len(tr.ptx.kernels)].registers =
                               Append(@, [id |-> reg, type |-> type])],
                reg, type)
    /\ UNCHANGED <<insts, heap, last, snap, paired, cvt, mod>>

\* the loops over the sequence are between two blocks
AtLoop(t) ==
    \/ t.pc = "sequence"
    \/ /\ t.pc = "block"
       /\ \/ t.pass = 1
          \/ t.icursor = Len(Kernel(t).sequence[t.cursor].instructions)

\* a turn of either loop that meets the entry or the exit block: continue.
\* The first loop ends at the exit block and the second begins; the kernel is
\* translated when the second ends.
SkipBlock ==
    /\ \/ /\ tr.pc = "registers"
          /\ tr' = [tr EXCEPT
                      !.ptx.kernels[Len(tr.ptx.kernels)].sequence =
                          <<PTXBlock("entry", "")>>,
                      !.pass = 1, !.cursor = 1, !.pc = "sequence"]
       \/ /\ AtLoop(tr) /\ tr.pass = 1
          /\ tr' = [tr EXCEPT
                      !.ptx.kernels[Len(tr.ptx.kernels)].sequence =
                          Append(@, PTXBlock("exit", "")),
                      !.pass = 2, !.cursor = 0, !.icursor = 0,
                      !.pc = "sequence"]
       \/ /\ AtLoop(tr) /\ tr.pass = 2
          /\ tr.cursor < Len(Kernel(tr).sequence)
          /\ Kernel(tr).sequence[tr.cursor + 1].kind # "body"
          /\ tr' = IF tr.cursor + 1 = Len(Kernel(tr).sequence)
                   THEN [tr EXCEPT !.pass = 0, !.cursor = 0, !.icursor = 0,
                                   !.pc = "kernels"]
                   ELSE [tr EXCEPT !.cursor = @ + 1, !.icursor = 0,
                                   !.pc = "sequence"]
    /\ UNCHANGED <<insts, heap, last, snap, paired, cvt, mod>>

\* a turn of either loop that meets a body block: _translateBasicBlock up to
\* its loop
TranslateBasicBlock ==
    /\ AtLoop(tr)
    /\ \/ /\ tr.pass = 1
          /\ Size(tr) < MaxSize
          /\ LET b == PTXBlock("body",
                         "L" \o ToString(BodyBlocks(Kernel(tr)) + 1))
             IN  tr' = translateBasicBlock(
                          [tr EXCEPT
                             !.ptx.kernels[Len(tr.ptx.kernels)].sequence =
                                 Append(@, b),
                             !.cursor = @ + 1, !.icursor = 0, !.pc = "block"],
                          b)
       \/ /\ tr.pass = 2
          /\ tr.cursor < Len(Kernel(tr).sequence)
          /\ Kernel(tr).sequence[tr.cursor + 1].kind = "body"
          /\ tr' = translateBasicBlock(
                      [tr EXCEPT !.cursor = @ + 1, !.icursor = 0,
                                 !.pc = "block"],
                      Kernel(tr).sequence[tr.cursor + 1])
    /\ UNCHANGED <<insts, heap, last, snap, paired, cvt, mod>>

\* one turn of the loop of _translateBasicBlock: _translateInstruction
TranslateInstruction ==
    /\ tr.pc = "block"
    /\ \/ /\ tr.pass = 1
          /\ Size(tr) < MaxSize
          /\ \E ptx \in PTXInstructions :
                \E u \in Outcomes(ptx) :
                   tr' = translateInstruction(
                            [tr EXCEPT
                               !.ptx.kernels[Len(tr.ptx.kernels)]
                                   .sequence[tr.cursor].instructions =
                                       Append(@, ptx),
                               !.icursor = @ + 1],
                            ptx, u)
       \/ /\ tr.pass = 2
          /\ tr.icursor < Len(Kernel(tr).sequence[tr.cursor].instructions)
          /\ LET ptx == Kernel(tr).sequence[tr.cursor]
                             .instructions[tr.icursor + 1]
             IN  \E u \in Outcomes(ptx) :
                    tr' = translateInstruction(
                             [tr EXCEPT !.icursor = @ + 1], ptx, u)
    /\ UNCHANGED <<insts, heap, last, snap, paired, cvt, mod>>

\* translate returns
Return ==
    /\ tr.pc \in {"globals", "kernels"}
    /\ tr' = [tr EXCEPT !.pc = "done"]
    /\ UNCHANGED <<insts, heap, last, snap, paired, cvt, mod>>

TransNext ==
    \/ Translate
    \/ \E g \in Globals : TranslateGlobal(g.attribute, g.initializedBytes)
    \/ \E linkingDirective \in LinkingDirectives :
          TranslateKernel(linkingDirective)
    \/ \E r \in ReferencedRegisters : TranslateRegisterValue(r.id, r.type)
    \/ SkipBlock
    \/ TranslateBasicBlock
    \/ TranslateInstruction
    \/ Return

SpecTrans == TransInit /\ [][TransNext]_vars

(***************************************************************************)
(* Properties of the translator.  They are stated over the source module   *)
(* read (tr.ptx) and the target module built (tr._module).                 *)
(***************************************************************************)
\* the register ids a kernel has declared, and those any kernel has
DeclaredIds(kernel) ==
    {kernel.registers[k].id : k \in 1..Len(kernel.registers)}
EverDeclared(t) ==
    UNION {DeclaredIds(t.ptx.kernels[k]) : k \in 1..Len(t.ptx.kernels)}

\* the register ids the register, indirect and predicate operands of a
\* source instruction name
UsedIds(ptx) ==
    {o.reg : o \in {o \in {ptx.d, ptx.a, ptx.b} :
                        o.addressMode \in {"Register", "Indirect"}}}
    \cup (IF ptx.pg.condition \in {"PT", "nPT"} THEN {} ELSE {ptx.pg.reg})

\* this step is a turn of the loop over the referenced registers
DeclareStep ==
    /\ tr.pc = "registers"
    /\ Len(Kernel(tr').registers) = Len(Kernel(tr).registers) + 1

\* this step is a turn of the loop over the instructions of a block
InstructionStep ==
    /\ tr.pc = "block"
    /\ tr'.icursor = tr.icursor + 1

\* the instructions of the block under translation
BlockInstructions(t) == TheFunction(t).blocks[t._block].instructions

\* C5: within one kernel, declaring a register id the kernel has already
\* declared raises the duplicate-declaration error and creates no second
\* virtual register for it; lowering an instruction with a register,
\* indirect or predicate operand whose register id was never declared
\* raises the undeclared-register error and appends no instruction.
C5_RegisterErrors ==
    [][/\ DeclareStep =>
            LET r == Kernel(tr').registers[Len(Kernel(tr').registers)]
            IN  r.id \in DeclaredIds(Kernel(tr)) =>
                    /\ tr'.pc = "failed"
                    /\ tr'.error = DuplicateError
                    /\ tr'._module = tr._module
                    /\ tr'._registers = tr._registers
       /\ InstructionStep =>
            LET ptx == tr'._ptxInstruction
            IN  /\ isSimpleBinaryInstruction(ptx)
                       \/ isSimpleUnaryInstruction(ptx)
                /\ UsedIds(ptx) \ EverDeclared(tr) # {}
                => /\ tr'.pc = "failed"
                   /\ tr'.error = UndeclaredError
                   /\ BlockInstructions(tr') = BlockInstructions(tr)
      ]_vars

\* a kernel declared a register id a second time and the call failed with
\* one virtual register in its function
C5_Witness ==
    /\ tr.pc = "failed"
    /\ tr.error = DuplicateError
    /\ Len(tr.ptx.kernels) = 1
    /\ Len(Kernel(tr).registers) = 2
    /\ Kernel(tr).registers[1].id = Kernel(tr).registers[2].id
    /\ Len(TheFunction(tr).registers) = 1

\* the register operands of the instructions of a function
RegisterOperands(f) ==
    {o \in UNION {UNION {{vir.reads[n] : n \in 1..Len(vir.reads)}
                          \cup {vir.writes[n] : n \in 1..Len(vir.writes)} :
                     vir \in {f.blocks[j].instructions[n] :
                                n \in 1..Len(f.blocks[j].instructions)}} :
                  j \in 1..Len(f.blocks)} :
        o.reg # NoRegister}

\* C6: the symbol tables are per kernel: declaring a register id that the
\* kernel under translation has not declared raises no duplicate-declaration
\* error, whatever earlier kernels declared, and every register operand of
\* a function refers to a virtual register owned by that function.
C6_PerKernelTables ==
    /\ [][DeclareStep =>
            LET r == Kernel(tr').registers[Len(Kernel(tr').registers)]
            IN  r.id \notin DeclaredIds(Kernel(tr)) =>
                    tr'.error # DuplicateError]_vars
    /\ [](tr.pc # "start" =>
            \A k \in 1..Len(tr._module.functions) :
               \A o \in RegisterOperands(tr._module.functions[k]) :
                  o.reg.function = tr._module.functions[k].name)

\* the body blocks of a kernel's executable sequence
Body(kernel) == SelectSeq(kernel.sequence, LAMBDA b : b.kind = "body")

\* kernel k of the source module has been translated
Translated(t, k) ==
    \/ k < Len(t.ptx.kernels)
    \/ k = Len(t.ptx.kernels) /\ t.pc \in {"kernels", "done"}

\* C7: after a kernel is translated its function holds the entry block, one
\* block per body block of the source sequence, of the same name and in the
\* same order, each with one lowered instruction per source instruction,
\* and then the terminal block.
C7_OneBlockPerSourceBlock ==
    tr.pc # "start" =>
        \A k \in 1..Len(tr.ptx.kernels) :
           Translated(tr, k) =>
              LET f == tr._module.functions[k]
                  body == Body(tr.ptx.kernels[k])
              IN  /\ Len(f.blocks) = Len(body) + 2
                  /\ \A j \in 1..Len(body) :
                        /\ f.blocks[j + 1].name = body[j].label
                        /\ Len(f.blocks[j + 1].instructions) =
                               Len(body[j].instructions)

\* C8: lowering bra.uni TARGET, TARGET the label of a block of the kernel,
\* appends a Bra whose guard is always true and whose target operand is the
\* address of the translated block named TARGET.
C8_BraUni ==
    [][InstructionStep =>
         LET ptx == tr'._ptxInstruction
         IN  /\ ptx.opcode = "Bra"
             /\ ptx.pg.condition = "PT"
             /\ ptx.d.addressMode = "Label"
             /\ \E j \in 1..Len(Body(Kernel(tr))) :
                   Body(Kernel(tr))[j].label = ptx.d.identifier
             => /\ Len(BlockInstructions(tr')) = Len(BlockInstructions(tr)) + 1
                /\ LET vir == BlockInstructions(tr')[Len(BlockInstructions(tr'))]
                   IN  /\ vir.opcode = "Bra"
                       /\ isUnconditional(vir)
                       /\ isBasicBlock(vir.reads[2])
                       /\ targetBasicBlock(vir).name = ptx.d.identifier
      ]_vars

\* the names _getSpecialVirtualRegister gives
SpecialNames ==
    {SpecialName(special, vIndex) :
        special \in VectorSpecials, vIndex \in 0..4}

\* the registers of the target module made for special registers
SpecialRegisters(t) ==
    UNION {{RegisterOf(t._module.functions[k], n) :
              n \in {n \in 1..Len(t._module.functions[k].registers) :
                        t._module.functions[k].registers[n].name
                            \in SpecialNames}} :
           k \in 1..Len(t._module.functions)}

\* C9: each (special register, lane) pair lowered has one virtual register,
\* created once, and two lanes of one vector special register have
\* different virtual registers of different names.
C9_SpecialRegisters ==
    tr.pc # "start" =>
        /\ Cardinality(SpecialRegisters(tr)) =
               Cardinality(DOMAIN tr._specialRegisters)
        /\ \A h1, h2 \in DOMAIN tr._specialRegisters :
              h1 # h2 /\ h1 \div 16 = h2 \div 16 =>
                 /\ tr._specialRegisters[h1] # tr._specialRegisters[h2]
                 /\ tr._specialRegisters[h1].name
                        # tr._specialRegisters[h2].name

\* C10: after translate has returned, the target module holds one global per
\* source global and one function per source kernel, under the source names
\* and in the source order, with external linkage exactly for the extern
\* ones and private linkage for the others; no global is created once a
\* function exists.
C10_GlobalsThenKernels ==
    /\ [](tr.pc = "done" =>
            /\ tr.compiler = <<"ptx">>
            /\ Len(tr._module.globals) = Len(tr.ptx.globals)
            /\ \A k \in 1..Len(tr.ptx.globals) :
                  /\ tr._module.globals[k].name = tr.ptx.globals[k].name
                  /\ tr._module.globals[k].linkage =
                        IF tr.ptx.globals[k].attribute = "Extern"
                        THEN "ExternalLinkage" ELSE "PrivateLinkage"
            /\ Len(tr._module.functions) = Len(tr.ptx.kernels)
            /\ \A k \in 1..Len(tr.ptx.kernels) :
                  /\ tr._module.functions[k].name = tr.ptx.kernels[k].name
                  /\ tr._module.functions[k].linkage =
                        IF tr.ptx.kernels[k].linkingDirective = "Extern"
                        THEN "ExternalLinkage" ELSE "PrivateLinkage")
    /\ [][tr.pc # "start" /\ tr'._module.globals # tr._module.globals
            => tr._module.functions = <<>>]_vars

\* translate has returned from a module of an extern and a private global
\* and an extern and a visible kernel
C10_Witness ==
    /\ tr.pc = "done"
    /\ Len(tr._module.globals) = 2
    /\ Len(tr._module.functions) = 2
    /\ {tr.ptx.globals[k].attribute : k \in 1..2} = {"Extern", "NoAttribute"}
    /\ {tr.ptx.kernels[k].linkingDirective : k \in 1..2} = LinkingDirectives

\* C11: when translate fails, nothing more is lowered after the first error
\* and the compiling context holds the modules it held before the call:
\* none, the translator's compiler being new.
C11_FailFast ==
    /\ [](tr.pc = "failed" => tr.compiler = <<>>)
    /\ [][tr.pc = "failed" => tr' = tr]_vars

\* the slots of the read and write lists that hold operand o
OwningSlots(o) ==
    {s \in UNION {({i} \X {"r"} \X (1..Len(insts[i].reads)))
                     \cup ({i} \X {"w"} \X (1..Len(insts[i].writes))) :
                  i \in DOMAIN insts} :
        IF s[2] = "r" THEN insts[s[1]].reads[s[3]] = o
        ELSE insts[s[1]].writes[s[3]] = o}

\* C12: every operand handed to an instruction is either live in exactly
\* one slot of a read or write list, or in no slot and released exactly
\* once.
C12_ExclusiveOwnership ==
    \A o \in DOMAIN heap :
       \/ heap[o].frees = 0 /\ Cardinality(OwningSlots(o)) = 1
       \/ heap[o].frees = 1 /\ OwningSlots(o) = {}

(***************************************************************************)
(* The lowering rules, one source instruction at a time: kernel k1 has     *)
(* declared r1 and r2 and the first loop of _translateKernel is in block   *)
(* L1, about to lower its first instruction.                               *)
(***************************************************************************)
\* the state of the translator there, reached through the calls translate
\* has made
InBlock(assertions) ==
    LET kernel == [name |-> "k1", linkingDirective |-> "Visible",
                   registers |-> <<[id |-> 1, type |-> "u32"],
                                   [id |-> 2, type |-> "u32"]>>,
                   sequence |-> <<PTXBlock("entry", ""),
                                  PTXBlock("body", "L1")>>]
        t0 == [Translator EXCEPT
                 !.assertions = assertions,
                 !.compiler = <<"ptx">>,
                 !.ptx.kernels = <<kernel>>,
                 !._module = newFunction(Module("ptx"), "k1",
                                 translateLinkingDirective("Visible")),
                 !._function = 1,
                 !.pass = 1, !.cursor = 2, !.pc = "block"]
    IN  translateBasicBlock(
            translateRegisterValue(translateRegisterValue(t0, 1, "u32"),
                                   2, "u32"),
            PTXBlock("body", "L1"))

\* the source instructions lowered: every opcode with every type and guard
BinaryForms == {"Add", "And", "Or", "Shl", "Sub", "Xor", "Div", "Mul", "Rem"}
MemoryForms == {"Ld", "Ldu", "Mov", "St"}
OtherForms  == {"Cvt", "Cvt.rn", "Not", "Bra", "Setp"}
PTXGuards ==
    {Always, Guard("nPT", 0), Guard("Pred", 2), Guard("InvPred", 2),
     Guard("Pred", 3)}

PTXForm(opcode, type, pg) ==
    CASE opcode \in BinaryForms \cup {"Setp"} ->
            PTXInstruction(opcode, type, pg, Reg(1), Reg(1), Reg(2))
      [] opcode \in {"Ld", "Ldu"} ->
            PTXInstruction(opcode, type, pg, Reg(1), Ind(2, 4), InvalidOperand)
      [] opcode = "St" ->
            PTXInstruction(opcode, type, pg, Ind(2, 4), Reg(1), InvalidOperand)
      [] opcode \in {"Mov", "Not"} ->
            PTXInstruction(opcode, type, pg, Reg(1), Reg(2), InvalidOperand)
      [] opcode = "Cvt" ->
            PTXInstruction(opcode, type, pg, [Reg(1) EXCEPT !.type = type],
                           Reg(2), InvalidOperand)
      [] opcode = "Cvt.rn" ->
            [PTXInstruction("Cvt", type, pg, [Reg(1) EXCEPT !.type = type],
                            Reg(2), InvalidOperand)
                EXCEPT !.modifier = "rn"]
      [] OTHER ->
            PTXInstruction(opcode, type, pg, Label("L1"), InvalidOperand,
                           InvalidOperand)

PTXForms ==
    {PTXForm(opcode, type, pg) :
        opcode \in BinaryForms \cup MemoryForms \cup OtherForms,
        type \in DataTypes, pg \in PTXGuards}

LowerInit ==
    /\ \E a \in BOOLEAN : tr = InBlock(a)
    /\ insts = NoObjects
    /\ heap = NoObjects
    /\ last = NoLast
    /\ snap = NoSnap
    /\ paired = NoObjects
    /\ cvt = NoCvt
    /\ mod = NoModule

\* the turn of the loop of _translateBasicBlock for the first instruction
LowerInstruction ==
    /\ tr.pc = "block"
    /\ tr.icursor = 0
    /\ \E ptx \in PTXForms :
          \E u \in Outcomes(ptx) :
             tr' = translateInstruction(
                      [tr EXCEPT
                         !.ptx.kernels[1].sequence[tr.cursor].instructions =
                             Append(@, ptx),
                         !.icursor = @ + 1],
                      ptx, u)
    /\ UNCHANGED <<insts, heap, last, snap, paired, cvt, mod>>

SpecLower == LowerInit /\ [][LowerInstruction]_vars

\* the first instruction of the block has gone through _translateInstruction
\* and every register it names was declared
Lowered == tr.icursor = 1
LoweredDeclared ==
    Lowered /\ UsedIds(tr._ptxInstruction) \subseteq EverDeclared(tr)

UnimplementedError == "no translation implemented for instruction"

\* the source opcodes that have a lowering rule: add, and, or, shl, sub,
\* xor, div, mul, rem, load, load-uncached, move, store and convert without
\* modifier
HasRule(ptx) ==
    \/ ptx.opcode \in BinaryForms \cup MemoryForms
    \/ ptx.opcode = "Cvt" /\ ptx.modifier = "Modifier_invalid"

\* the instruction appended alone to the block under translation
AppendedOne(t) ==
    /\ t.error = ""
    /\ Len(BlockInstructions(t)) = 1
    /\ BlockInstructions(t)[1] # NullLowered

\* C13: a source instruction whose opcode has a lowering rule and whose
\* registers are declared gets exactly one target instruction appended, by
\* the simple binary rule if that accepts it and else by the simple unary
\* rule; an instruction of any other opcode raises the unimplemented-
\* instruction error and appends nothing.
C13_Dispatch ==
    Lowered =>
        LET ptx == tr._ptxInstruction
        IN  /\ HasRule(ptx) /\ LoweredDeclared =>
                  /\ AppendedOne(tr)
                  /\ BlockInstructions(tr)[1].opcode =
                        IF isSimpleBinaryInstruction(ptx)
                        THEN newBinaryInstruction(ptx)
                        ELSE newUnaryInstruction(ptx)
            /\ ~HasRule(ptx) =>
                  /\ tr.pc = "failed"
                  /\ tr.error = UnimplementedError
                  /\ BlockInstructions(tr) = <<>>

\* target operand o is the translation of the register or indirect source
\* operand p
Translates(o, p) ==
    /\ o.reg = [function |-> "k1", id |-> p.reg - 1,
                name |-> "r" \o ToString(p.reg)]
    /\ \/ p.addressMode = "Register" /\ o.kind = "Register"
       \/ /\ p.addressMode = "Indirect"
          /\ o.kind = "Indirect"
          /\ o.offset = p.offset

\* target guard g is the translation of the source predicate pg
TranslatesGuard(g, pg) ==
    /\ g.kind = "Predicate"
    /\ pg.condition = "PT" => isAlwaysTrue(g) /\ g.reg = NoRegister
    /\ pg.condition = "nPT" =>
          g.modifier = "PredicateFalse" /\ g.reg = NoRegister
    /\ pg.condition = "Pred" =>
          /\ g.modifier = "StraightPredicate"
          /\ g.reg = [function |-> "k1", id |-> pg.reg - 1,
                      name |-> "r" \o ToString(pg.reg)]
    /\ pg.condition = "InvPred" =>
          /\ g.modifier = "InversePredicate"
          /\ g.reg = [function |-> "k1", id |-> pg.reg - 1,
                      name |-> "r" \o ToString(pg.reg)]

\* C14: a load or load-uncached whose registers are declared appends a Ld,
\* a move a Bitcast and a store a St, whose guard, destination and source
\* are the translations of those of the source instruction.
C14_MemoryForms ==
    LoweredDeclared /\ tr._ptxInstruction.opcode \in MemoryForms =>
        LET ptx == tr._ptxInstruction
        IN  /\ AppendedOne(tr)
            /\ LET vir == BlockInstructions(tr)[1]
               IN  /\ vir.opcode = CASE ptx.opcode = "Mov" -> "Bitcast"
                                     [] ptx.opcode = "St"  -> "St"
                                     [] OTHER              -> "Ld"
                   /\ TranslatesGuard(vir.reads[1], ptx.pg)
                   /\ IF ptx.opcode = "St"
                      THEN /\ vir.writes = <<>>
                           /\ Len(vir.reads) = 3
                           /\ Translates(vir.reads[2], ptx.d)
                           /\ Translates(vir.reads[3], ptx.a)
                      ELSE /\ Len(vir.writes) = 1
                           /\ Len(vir.reads) = 2
                           /\ Translates(vir.writes[1], ptx.d)
                           /\ Translates(vir.reads[2], ptx.a)

\* the target opcode of a simple binary operation of a type
BinaryTable(opcode, type) ==
    CASE opcode = "Div" -> IF type \in FloatTypes THEN "Fdiv"
                           ELSE IF type \in {"s8", "s16", "s32", "s64"}
                                THEN "Sdiv" ELSE "Udiv"
      [] opcode = "Rem" -> IF type \in FloatTypes THEN "Frem"
                           ELSE IF type \in {"s8", "s16", "s32", "s64"}
                                THEN "Srem" ELSE "Urem"
      [] opcode = "Mul" -> IF type \in FloatTypes THEN "Fmul" ELSE "Mul"
      [] OTHER -> opcode

\* C15: an add, and, or, shl, sub or xor whose registers are declared
\* appends the target instruction of the same name whatever its type; div
\* appends Fdiv for a float type, Sdiv for a signed integer type and Udiv
\* otherwise, rem Frem, Srem and Urem likewise, and mul Fmul for a float
\* type and Mul otherwise.
C15_BinaryForms ==
    LoweredDeclared /\ tr._ptxInstruction.opcode \in BinaryForms =>
        /\ AppendedOne(tr)
        /\ BlockInstructions(tr)[1].opcode =
              BinaryTable(tr._ptxInstruction.opcode, tr._ptxInstruction.type)
        /\ Len(BlockInstructions(tr)[1].reads) = 3
        /\ Len(BlockInstructions(tr)[1].writes) = 1

\* a signed 32-bit division has been lowered to Sdiv
C15_Witness ==
    /\ Lowered
    /\ tr._ptxInstruction.opcode = "Div"
    /\ tr._ptxInstruction.type = "s32"
    /\ AppendedOne(tr)
    /\ BlockInstructions(tr)[1].opcode = "Sdiv"

\* C16: the instruction appended by a lowering rule has a guard: the
\* always-true one for the constant-true source predicate and the
\* always-false one for the constant-false predicate, both without
\* register, and for a straight or inverted predicate one that names the
\* virtual register declared for the predicate register, with that
\* polarity; where the predicate register is undeclared, the rule raises
\* the undeclared-register error and appends nothing.
C16_Guards ==
    Lowered =>
        LET ptx == tr._ptxInstruction
        IN  /\ AppendedOne(tr) =>
                  TranslatesGuard(BlockInstructions(tr)[1].reads[1], ptx.pg)
            /\ /\ isSimpleBinaryInstruction(ptx) \/ isSimpleUnaryInstruction(ptx)
               /\ ptx.pg.condition \in {"Pred", "InvPred"}
               /\ ptx.pg.reg \notin EverDeclared(tr)
               => /\ tr.pc = "failed"
                  /\ tr.error = UndeclaredError
                  /\ BlockInstructions(tr) = <<>>
            /\ /\ HasRule(ptx) /\ ptx.opcode # "St"
               /\ ptx.pg.condition \in {"PT", "nPT"}
               => AppendedOne(tr)

\* a load guarded by the inverted predicate r2 has been lowered
C16_Witness ==
    /\ Lowered
    /\ tr._ptxInstruction.opcode = "Ld"
    /\ tr._ptxInstruction.pg.condition = "InvPred"
    /\ AppendedOne(tr)
    /\ BlockInstructions(tr)[1].reads[1].modifier = "InversePredicate"
    /\ BlockInstructions(tr)[1].reads[1].reg.name = "r2"

(***************************************************************************)
(* The list operations of Module.  mod.module is the module, mod.op the    *)
(* last operation called on it with its name argument, and mod.result the  *)
(* position of the iterator it returned.                                   *)
(***************************************************************************)
\* bound of the length of the lists of the module
MaxEntries == 2

\* std::list::insert ahead of position, and std::list::erase
InsertAt(list, position, x) ==
    SubSeq(list, 1, position - 1) \o <<x>> \o SubSeq(list, position, Len(list))
EraseAt(list, position) ==
    SubSeq(list, 1, position - 1) \o SubSeq(list, position + 1, Len(list))

\* Module::insertFunction, removeFunction, insertGlobal, removeGlobal
insertFunction(m, position, f) ==
    [m EXCEPT !.functions = InsertAt(@, position, f)]
removeFunction(m, position) ==
    [m EXCEPT !.functions = EraseAt(@, position)]
insertGlobal(m, position, g) ==
    [m EXCEPT !.globals = InsertAt(@, position, g)]
removeGlobal(m, position) ==
    [m EXCEPT !.globals = EraseAt(@, position)]

Names    == {"f", "g"}
Linkages == {"ExternalLinkage", "PrivateLinkage"}

Called(op, name, l, m, result) ==
    [op |-> op, name |-> name, linkage |-> l, module |-> m,
     result |-> result]

ModuleInit ==
    /\ mod = Called("Module", "", "", Module("m"), 0)
    /\ insts = NoObjects
    /\ heap = NoObjects
    /\ last = NoLast
    /\ snap = NoSnap
    /\ paired = NoObjects
    /\ cvt = NoCvt
    /\ tr = NoTranslation

Others == <<insts, heap, last, snap, paired, cvt, tr>>

NewFunction(name, l) ==
    /\ Len(mod.module.functions) < MaxEntries
    /\ LET m == newFunction(mod.module, name, l)
       IN  mod' = Called("newFunction", name, l, m, Len(m.functions))
    /\ UNCHANGED Others

InsertFunction(position, name, l) ==
    /\ Len(mod.module.functions) < MaxEntries
    /\ position \in 1..Len(mod.module.functions) + 1
    /\ mod' = Called("insertFunction", name, l,
                     insertFunction(mod.module, position, Function(name, l)),
                     position)
    /\ UNCHANGED Others

\* erase returns the iterator that follows the erased entry
RemoveFunction(position) ==
    /\ position \in 1..Len(mod.module.functions)
    /\ mod' = Called("removeFunction", "", "",
                     removeFunction(mod.module, position), position)
    /\ UNCHANGED Others

GetFunction(name) ==
    /\ mod' = Called("getFunction", name, "", mod.module,
                     getFunction(mod.module, name))
    /\ UNCHANGED Others

NewGlobal(name, l) ==
    /\ Len(mod.module.globals) < MaxEntries
    /\ LET m == newGlobal(mod.module, name, "i32", l)
       IN  mod' = Called("newGlobal", name, l, m, Len(m.globals))
    /\ UNCHANGED Others

InsertGlobal(position, name, l) ==
    /\ Len(mod.module.globals) < MaxEntries
    /\ position \in 1..Len(mod.module.globals) + 1
    /\ mod' = Called("insertGlobal", name, l,
                     insertGlobal(mod.module, position,
                         [name |-> name, type |-> "i32", linkage |-> l]),
                     position)
    /\ UNCHANGED Others

RemoveGlobal(position) ==
    /\ position \in 1..Len(mod.module.globals)
    /\ mod' = Called("removeGlobal", "", "",
                     removeGlobal(mod.module, position), position)
    /\ UNCHANGED Others

GetGlobal(name) ==
    /\ mod' = Called("getGlobal", name, "", mod.module,
                     getGlobal(mod.module, name))
    /\ UNCHANGED Others

ModuleNext ==
    \/ \E name \in Names, l \in Linkages : NewFunction(name, l)
    \/ \E position \in 1..MaxEntries, name \in Names, l \in Linkages :
          InsertFunction(position, name, l)
    \/ \E position \in 1..MaxEntries : RemoveFunction(position)
    \/ \E name \in Names : GetFunction(name)
    \/ \E name \in Names, l \in Linkages : NewGlobal(name, l)
    \/ \E position \in 1..MaxEntries, name \in Names, l \in Linkages :
          InsertGlobal(position, name, l)
    \/ \E position \in 1..MaxEntries : RemoveGlobal(position)
    \/ \E name \in Names : GetGlobal(name)

SpecModule == ModuleInit /\ [][ModuleNext]_vars

\* position is that of the first entry of the list named name, or the end
\* of the list when it has none
FirstNamed(list, name, position) ==
    /\ position \in 1..Len(list) + 1
    /\ \A k \in 1..Len(list) : k < position => list[k].name # name
    /\ position <= Len(list) => list[position].name = name

\* C17: whatever was created, inserted and removed before, newFunction puts
\* a function of the given name and linkage at the end of the list and
\* returns its position, getFunction returns the position of the first
\* function of the name or the end of the list, and neither lookup changes
\* the module; likewise newGlobal and getGlobal.
C17_ModuleLists ==
    [][/\ mod'.op = "newFunction" =>
            /\ mod'.module.globals = mod.module.globals
            /\ Len(mod'.module.functions) = Len(mod.module.functions) + 1
            /\ SubSeq(mod'.module.functions, 1, Len(mod.module.functions))
                  = mod.module.functions
            /\ mod'.result = Len(mod'.module.functions)
            /\ mod'.module.functions[mod'.result].name = mod'.name
            /\ mod'.module.functions[mod'.result].linkage = mod'.linkage
       /\ mod'.op = "newGlobal" =>
            /\ mod'.module.functions = mod.module.functions
            /\ Len(mod'.module.globals) = Len(mod.module.globals) + 1
            /\ SubSeq(mod'.module.globals, 1, Len(mod.module.globals))
                  = mod.module.globals
            /\ mod'.result = Len(mod'.module.globals)
            /\ mod'.module.globals[mod'.result].name = mod'.name
            /\ mod'.module.globals[mod'.result].linkage = mod'.linkage
       /\ mod'.op = "getFunction" =>
            /\ mod'.module = mod.module
            /\ FirstNamed(mod.module.functions, mod'.name, mod'.result)
       /\ mod'.op = "getGlobal" =>
            /\ mod'.module = mod.module
            /\ FirstNamed(mod.module.globals, mod'.name, mod'.result)
      ]_vars

\* getFunction has returned the first of two functions of the same name
C17_Witness ==
    /\ mod.op = "getFunction"
    /\ Len(mod.module.functions) = 2
    /\ mod.module.functions[1].name = mod.name
    /\ mod.module.functions[2].name = mod.name
    /\ mod.module.functions[1] # mod.module.functions[2]
    /\ mod.result = 1

(***************************************************************************)
(* The factory Instruction::create on its own: every opcode of the         *)
(* enumeration, every block.                                               *)
(***************************************************************************)
\* Instruction::Opcode, InvalidOpcode included
Enumeration == Opcodes \cup {"InvalidOpcode"}

\* the blocks a caller creates an instruction for
Blocks == {TheBlock} \cup Predecessors
\* the default block argument of the constructors
NoBlock == ""

\* create stores to instruction->block through the null pointer the switch
\* leaves for InvalidOpcode: the call may crash or go on and return null
CreateOutcomes(o) == IF o \in Opcodes THEN {"defined"} ELSE {"crash", "survive"}

\* Instruction::create(o, b) with the tag t the class's constructor
\* defaults to; result is the object returned
create(o, t, b, u) ==
    IF o \in Opcodes
    THEN [insts  |-> [x \in {"orig"} |->
                         [Construct(o, t, NoBlock) EXCEPT !.block = b]],
          result |-> "orig"]
    ELSE [insts  |-> NoObjects,
          result |-> IF u = "crash" THEN "crashed" ELSE "null"]

FactoryInit ==
    /\ insts = NoObjects
    /\ heap = NoObjects
    /\ last = NoLast
    /\ snap = NoSnap
    /\ paired = NoObjects
    /\ cvt = NoCvt
    /\ tr = NoTranslation
    /\ mod = NoModule

\* a caller calls Instruction::create(o, b)
FactoryCreate(o, t, b, u) ==
    /\ last = NoLast
    /\ LET r == create(o, t, b, u)
       IN  /\ insts' = r.insts
           /\ last' = [op |-> "create", opcode |-> o, block |-> b,
                       result |-> r.result]
    /\ UNCHANGED <<heap, snap, paired, cvt, tr, mod>>

FactoryNext ==
    \E o \in Enumeration, b \in Blocks :
        \E t \in (IF HasTag(o) THEN Tags ELSE {NoTag}), u \in CreateOutcomes(o) :
            FactoryCreate(o, t, b, u)

SpecFactory == FactoryInit /\ [][FactoryNext]_vars

\* the read and write slots of each shape: the guard slot and the fixed
\* operand slots
SlotCounts(o) ==
    CASE Shape(o) = "Unary"      -> [reads |-> 2, writes |-> 1]
      [] Shape(o) = "Binary"     -> [reads |-> 3, writes |-> 1]
      [] Shape(o) = "Comparison" -> [reads |-> 3, writes |-> 1]
      [] Shape(o) = "Atom"       -> [reads |-> 4, writes |-> 1]
      [] Shape(o) = "Bra"        -> [reads |-> 2, writes |-> 0]
      [] Shape(o) = "Call"       -> [reads |-> 2, writes |-> 0]
      [] Shape(o) = "St"         -> [reads |-> 3, writes |-> 0]
      [] Shape(o) \in {"Phi", "Psi"} -> [reads |-> 1, writes |-> 1]
      [] OTHER                   -> [reads |-> 1, writes |-> 0]

\* C18: for every opcode of the enumeration, create(o, b) returns an
\* instruction whose opcode is o, whose read and write lists have the slot
\* counts of the opcode's shape and whose block is b.
C18_Factory ==
    last.op = "create" =>
        /\ last.result = "orig"
        /\ "orig" \in DOMAIN insts
        /\ LET x == insts["orig"]
           IN  /\ x.opcode = last.opcode
               /\ Len(x.reads) = SlotCounts(last.opcode).reads
               /\ Len(x.writes) = SlotCounts(last.opcode).writes
               /\ x.block = last.block

\* the operands at positions k..Len(list) of a list, each printed once in
\* list order and joined by commas
RECURSIVE Joined(_, _, _)
Joined(list, h, k) ==
    IF k > Len(list) THEN <<>>
    ELSE OperandToString(h[list[k]].val)
         \o (IF k < Len(list) THEN <<", ">> ELSE <<>>)
         \o Joined(list, h, k + 1)

\* what may stand between the opcode name, the writes and the reads
Separators == {<<>>, <<" ">>, <<", ">>}

\* the text of instruction x is the guard and a space (left out exactly
\* when the guard is always true), the opcode name, the writes and the
\* reads after slot 0
TextualForm(x, h) ==
    \E s1 \in Separators, s2 \in Separators :
        toString(x, h) =
            (IF isAlwaysTrue(h[x.reads[1]].val) THEN <<>>
             ELSE OperandToString(h[x.reads[1]].val) \o <<" ">>)
            \o <<x.opcode>> \o s1
            \o Joined(x.writes, h, 1) \o s2
            \o Joined(x.reads, h, 2)

\* C19: the textual form of an instruction all of whose slots are filled is
\* the guard followed by a space (omitted exactly when the guard is always
\* true), the opcode name, all writes joined by commas, then all reads but
\* slot 0 joined by commas, each printed once in list order.
C19_TextualForm ==
    \A i \in DOMAIN insts :
        Rendered(insts[i], heap) => TextualForm(insts[i], heap)

\* an instruction printed with a register guard, a write and two reads
\* after the guard slot
C19_Witness ==
    /\ "orig" \in DOMAIN insts
    /\ Rendered(insts["orig"], heap)
    /\ ~isAlwaysTrue(heap[insts["orig"].guard].val)
    /\ Len(insts["orig"].writes) >= 1
    /\ Len(insts["orig"].reads) >= 3

\* the occupants of all slots of instruction x: the reads, then the writes
Slots(x) == x.reads \o x.writes

\* the step makes o the occupant of slot k of object i, where it replaces
\* the previous occupant, which is freed; no other slot and no other
\* operand changes
Replaces(i, k) ==
    LET x == insts[i]
        y == insts'[i]
        old == Slots(x)[k]
        o == Slots(y)[k]
    IN  /\ Len(y.reads) = Len(x.reads)
        /\ Len(y.writes) = Len(x.writes)
        /\ \A j \in 1..Len(Slots(x)) : j # k => Slots(y)[j] = Slots(x)[j]
        /\ o \notin DOMAIN heap
        /\ Live(heap', o)
        /\ DOMAIN heap' = DOMAIN heap \cup {o}
        /\ \A p \in DOMAIN heap :
              heap'[p].frees = heap[p].frees + (IF p = old THEN 1 ELSE 0)

\* the step appends a slot holding a new operand to the reads (list "r") or
\* the writes (list "w") of object i and frees nothing
Appends(i, list) ==
    LET x == insts[i]
        y == insts'[i]
        o == IF list = "r" THEN Back(y.reads) ELSE Back(y.writes)
    IN  /\ list = "r" => y.reads = Append(x.reads, o) /\ y.writes = x.writes
        /\ list = "w" => y.writes = Append(x.writes, o) /\ y.reads = x.reads
        /\ o \notin DOMAIN heap
        /\ Live(heap', o)
        /\ DOMAIN heap' = DOMAIN heap \cup {o}
        /\ \A p \in DOMAIN heap : heap'[p].frees = heap[p].frees

\* some slot of object i is replaced
ReplacesOne(i) == \E k \in 1..Len(Slots(insts[i])) : Replaces(i, k)

\* the slot each fixed setter is for
SlotOfD(x) == IF Shape(x.opcode) = "St" THEN 2 ELSE Len(x.reads) + 1
SlotOfA(x) == IF Shape(x.opcode) = "St" THEN 3 ELSE 2

FixedSetters(i) ==
    /\ (\E v \in GuardValues : SetGuard(i, v)) => Replaces(i, 1)
    /\ (\E v \in OperandValues : SetD(i, v)) => Replaces(i, SlotOfD(insts[i]))
    /\ (\E v \in OperandValues : SetA(i, v)) => Replaces(i, SlotOfA(insts[i]))
    /\ (\E v \in OperandValues : SetB(i, v)) => Replaces(i, 3)
    /\ (\E v \in OperandValues : SetTarget(i, v)) => Replaces(i, 2)

\* C20: each of setGuard, setD, setA, setB, setTarget, addReturn and
\* addArgument replaces the occupant of one slot of the instruction and
\* frees the previous occupant of that slot.
C20_SettersReplace ==
    [][\A i \in InstIds :
          /\ FixedSetters(i)
          /\ (\E v \in OperandValues : AddReturn(i, v)) => ReplacesOne(i)
          /\ (\E v \in OperandValues : AddArgument(i, v)) => ReplacesOne(i)]_vars

\* C20, amended: setGuard, setD, setA, setB and setTarget replace the
\* occupant of their slot and free the previous occupant; addReturn and
\* addArgument append a new slot to the writes and to the reads and free
\* nothing.
C20_SettersReplaceOrAppend ==
    [][\A i \in InstIds :
          /\ FixedSetters(i)
          /\ (\E v \in OperandValues : AddReturn(i, v)) => Appends(i, "w")
          /\ (\E v \in OperandValues : AddArgument(i, v)) => Appends(i, "r")]_vars

\* a call whose target was replaced, freeing the first one, and which was
\* given a return value and an argument
C20_Witness ==
    /\ "orig" \in DOMAIN insts
    /\ insts["orig"].opcode = "Call"
    /\ Len(insts["orig"].returned) >= 1
    /\ Len(insts["orig"].arguments) >= 1
    /\ \E p \in DOMAIN heap : Site(p) = <<"orig", "r", 2>> /\ heap[p].frees = 1
    /\ Live(heap, insts["orig"].target)

(***************************************************************************)
(* Assignment.  x is the object assigned to, i the one assigned from and   *)
(* j names x.                                                              *)
(***************************************************************************)
\* Instruction::clear: every read and every write is deleted, slot by slot
clear(x, h) ==
    LET s == x.reads \o x.writes
    IN  [a \in DOMAIN h |->
            LET n == Cardinality({k \in 1..Len(s) : s[k] = a})
            IN  IF n = 0 THEN h[a]
                ELSE [val |-> Garbage, frees |-> h[a].frees + n]]

\* Instruction::operator=: the fields of the derived classes keep the
\* values they have in x
InstructionAssign(x, i, h, j) ==
    LET c == InstructionCopy(i, clear(x, h), j)
    IN  [inst |-> [x EXCEPT !.opcode = i.opcode, !.block = i.block,
                            !.reads = c.inst.reads, !.guard = c.inst.reads[1],
                            !.writes = c.inst.writes],
         heap |-> c.heap]

\* UnaryInstruction::operator=
UnaryAssign(x, i, h, j) ==
    LET c == InstructionAssign(x, i, h, j)
    IN  [c EXCEPT !.inst.d = c.inst.writes[1], !.inst.a = c.inst.reads[2]]

\* BinaryInstruction::operator=
BinaryAssign(x, i, h, j) ==
    LET c == InstructionAssign(x, i, h, j)
    IN  [c EXCEPT !.inst.d = c.inst.writes[1], !.inst.a = c.inst.reads[2],
                  !.inst.b = c.inst.reads[3]]

\* the implicit assignment of ComparisonInstruction and Setp
ComparisonAssign(x, i, h, j) ==
    [BinaryAssign(x, i, h, j) EXCEPT !.inst.tag = i.tag]

\* Atom::operator=: operation is not assigned
AtomAssign(x, i, h, j) ==
    LET c == BinaryAssign(x, i, h, j)
    IN  [c EXCEPT !.inst.c = c.inst.reads[4]]

\* the implicit assignment of Membar
MembarAssign(x, i, h, j) ==
    [InstructionAssign(x, i, h, j) EXCEPT !.inst.tag = i.tag]

\* Bra::operator=
BraAssign(x, i, h, j) ==
    LET c == InstructionAssign(x, i, h, j)
    IN  [c EXCEPT !.inst.target = c.inst.reads[2], !.inst.tag = i.tag]

\* Call::operator=
CallAssign(x, i, h, j) ==
    LET c == InstructionAssign(x, i, h, j)
    IN  [c EXCEPT !.inst.returned =
                      [r \in 1..Len(i.returned) |-> c.inst.writes[r]],
                  !.inst.target = c.inst.reads[2],
                  !.inst.arguments =
                      [a \in 1..Len(i.arguments) |-> c.inst.reads[a + 2]]]

\* St::operator=
StAssign(x, i, h, j) ==
    LET c == InstructionAssign(x, i, h, j)
    IN  [c EXCEPT !.inst.d = c.inst.reads[2], !.inst.a = c.inst.reads[3]]

\* Phi::operator=
PhiAssign(x, i, h, j) ==
    LET c == InstructionAssign(x, i, h, j)
    IN  [c EXCEPT !.inst.d = Back(c.inst.writes),
                  !.inst.sources = c.inst.reads,
                  !.inst.blocks = i.blocks]

\* Psi::operator=
PsiAssign(x, i, h, j) ==
    LET c == InstructionAssign(x, i, h, j)
    IN  [c EXCEPT !.inst.d = Back(c.inst.writes),
                  !.inst.sources = c.inst.reads,
                  !.inst.predicates = i.predicates]

\* x = i for two objects of the same class
assign(x, i, h, j) ==
    CASE Shape(i.opcode) = "Unary"      -> UnaryAssign(x, i, h, j)
      [] Shape(i.opcode) = "Binary"     -> BinaryAssign(x, i, h, j)
      [] Shape(i.opcode) = "Comparison" -> ComparisonAssign(x, i, h, j)
      [] Shape(i.opcode) = "Atom"       -> AtomAssign(x, i, h, j)
      [] Shape(i.opcode) = "Bra"        -> BraAssign(x, i, h, j)
      [] Shape(i.opcode) = "Call"       -> CallAssign(x, i, h, j)
      [] Shape(i.opcode) = "Membar"     -> MembarAssign(x, i, h, j)
      [] Shape(i.opcode) = "St"         -> StAssign(x, i, h, j)
      [] Shape(i.opcode) = "Phi"        -> PhiAssign(x, i, h, j)
      [] Shape(i.opcode) = "Psi"        -> PsiAssign(x, i, h, j)
      [] OTHER                          -> InstructionAssign(x, i, h, j)

\* copy = orig, while the copy has not used up its allocations
Assign ==
    /\ "orig" \in DOMAIN insts
    /\ "copy" \in DOMAIN insts
    /\ Extra(heap, "copy") < MaxReplace
    /\ LET r == assign(insts["copy"], insts["orig"], heap, "copy")
       IN  /\ insts' = [insts EXCEPT !["copy"] = r.inst]
           /\ heap' = r.heap
    /\ snap' = [valid |-> TRUE, src |-> "orig", dst |-> "copy",
                inst |-> insts["orig"], heap |-> heap, ops |-> 0]
    /\ last' = [Did("assign", "copy") EXCEPT !.pre = insts["copy"]]
    /\ UNCHANGED <<paired, cvt, tr, mod>>

\* the instruction model with assignment
AssignNext ==
    \/ InstrNext
    \/ Assign

SpecAssign == InstrInit /\ [][AssignNext]_vars

\* the copy is a Phi or a Psi just copied or assigned from the original
JoinCopied ==
    /\ last.op \in {"clone", "assign"}
    /\ insts["orig"].opcode \in {"Phi", "Psi"}

\* the copy of a Phi (Psi) has the sources of the original: its lists are
\* parallel, sources[k] is its own read slot k+1 and blocks (predicates) are
\* those of the original
ParallelCopy ==
    LET x == insts["copy"]
        i == insts["orig"]
    IN  /\ Len(x.sources) = Len(i.sources)
        /\ Len(x.reads) - 1 = Len(x.sources)
        /\ Len(x.sources) = Len(Joins(x))
        /\ \A k \in 1..Len(x.sources) :
              x.sources[k] = x.reads[k + 1] /\ x.sources[k][1] = "copy"
        /\ Joins(x) = Joins(i)

\* removeSource(key) on the copy removes the source paired with key from
\* reads and from sources, and key from blocks (predicates)
RemovesPaired(key) ==
    LET x == insts["copy"]
        y == insts'["copy"]
        k == FirstIndex(Joins(x), key)
    IN  k # 0 =>
            /\ y.reads = RemoveAt(x.reads, k + 1)
            /\ \A m \in 1..Len(y.sources) : y.sources[m] # x.reads[k + 1]
            /\ Joins(y) = RemoveAt(Joins(x), k)

\* C21: copying, assigning or cloning a Phi (Psi) with k sources yields one
\* with k sources whose reads, sources and blocks (predicates) are parallel,
\* whose sources are its own read slots and whose blocks (predicates) are
\* the original's; a later removeSource on the copy removes the source
\* paired with the given block (predicate).
C21_JoinCopies ==
    /\ [](JoinCopied => ParallelCopy)
    /\ [][\A key \in Predecessors \cup Predicates :
             ("copy" \in DOMAIN insts /\ RemoveSource("copy", key))
                 => RemovesPaired(key)]_vars

\* read slot 0 of instruction x exists and holds a live predicate operand,
\* which is the guard of x
GuardPresent(x) ==
    /\ Len(x.reads) >= 1
    /\ x.reads[1] # nullptr
    /\ Live(heap, x.reads[1])
    /\ heap[x.reads[1]].val.kind = "Predicate"
    /\ x.guard = x.reads[1]

\* C22: in every state of every instruction, from the return of its
\* constructor through any setters, copies and assignments, read slot 0
\* exists and holds a predicate guard operand.
C22_GuardNeverAbsent ==
    \A i \in DOMAIN insts : GuardPresent(insts[i])

\* the operands an instruction object named j has allocated for itself
Own(j, list) == \A k \in 1..Len(list) : list[k] # nullptr => list[k][1] = j

\* C23: after any sequence of setTarget, addReturn, addArgument, copy and
\* assignment on a Call, returned lists exactly the writes in order, target
\* is read slot 1 and arguments lists exactly the reads after slot 1 in
\* order; the views of a copy refer to the copy's own operands.
C23_CallViews ==
    \A i \in DOMAIN insts :
        insts[i].opcode = "Call" =>
            LET x == insts[i]
            IN  /\ x.returned = x.writes
                /\ Len(x.reads) >= 2
                /\ x.target = x.reads[2]
                /\ x.arguments = SubSeq(x.reads, 3, Len(x.reads))
                /\ Own(i, x.returned)
                /\ Own(i, <<x.target>>)
                /\ Own(i, x.arguments)

\* a call with a target, a return value and an argument has been assigned
\* to its copy
C23_Witness ==
    /\ last.op = "assign"
    /\ insts["copy"].opcode = "Call"
    /\ insts["copy"].target # nullptr
    /\ Len(insts["copy"].returned) >= 1
    /\ Len(insts["copy"].arguments) >= 1

\* C24: copying, assigning or cloning an instruction preserves its opcode
\* and its shape-specific tag: the comparison of a comparison instruction,
\* the operation of an atomic instruction, the modifier of a branch and the
\* level of a memory barrier are the same in the copy as in the original.
C24_TagsPreserved ==
    last.op \in {"clone", "assign"} =>
        /\ insts["copy"].opcode = insts["orig"].opcode
        /\ insts["copy"].tag = insts["orig"].tag

\* the instructions lowered so far, in every block of every function
LoweredInstructions(t) ==
    UNION {UNION {{t._module.functions[k].blocks[j].instructions[n] :
                      n \in 1..Len(t._module.functions[k].blocks[j].instructions)} :
                  j \in 1..Len(t._module.functions[k].blocks)} :
           k \in 1..Len(t._module.functions)}

\* every operand of lowered instruction vir refers back to vir
RefersBack(vir) ==
    /\ \A n \in 1..Len(vir.reads)  : vir.reads[n].instruction = vir.id
    /\ \A n \in 1..Len(vir.writes) : vir.writes[n].instruction = vir.id

\* C25: every operand created while lowering a source instruction, by the
\* unary/memory rule or by the binary rule, carries a back-reference to the
\* target instruction it is installed in, never to an instruction lowered
\* earlier or to no instruction at all.
C25_BackReferences ==
    tr.pc # "start" =>
        \A vir \in LoweredInstructions(tr) :
            vir.opcode # NullInstruction => RefersBack(vir)

====
